---- MODULE Spec2Model ----
(***************************************************************************)
(* Model of the GitHub Actions -> GitLab status monitor.                   *)
(*   variant "branch": src/monitor/main.go   (selector = head branch)      *)
(*   variant "commit": src/unnamed/part_000  (selector = head SHA)         *)
(* One action per network call / decision point of startMonitoring; the    *)
(* source and target systems are the environment: every fetch and publish  *)
(* answers with a nondeterministic outcome.  Time is counted in minutes at *)
(* the points that the code's comparisons can tell apart.                  *)
(***************************************************************************)
EXTENDS Integers, Sequences, FiniteSets, TLC

\* ---- bounds of the model ----
MaxRuns == 2
MaxRunID == 1

\* ---- program constants ----
Ceiling == 45
SearchCeiling == 5

ClockPoints == {0, SearchCeiling, SearchCeiling + 1, Ceiling, Ceiling + 1}

Variants == {"branch", "commit"}
Statuses == {"", "queued", "in_progress", "completed", "waiting"}
Conclusions == {"", "success", "failure", "cancelled", "timed_out"}
Branches == {"main", "dev"}
SHAs == {"abc", "def"}
RunIDs == 0..MaxRunID
FetchErrors == {"network", "http_status", "decode"}
PublishOutcomes == {"ok_2xx", "non_2xx", "transport"}
GitLabStates == {"pending", "running", "success", "failed", "canceled"}

\* html_url of the run with the given id, as the source API reports it
URLOf(id) == <<"actions/runs", id>>

\* the (id, status, conclusion) of the run of the last publish call: none yet
NoTriple == <<-1, "", "">>

NoRun == [ID |-> -1, Status |-> "", Conclusion |-> "", HeadSHA |-> "", HeadBranch |-> "",
          HTMLURL |-> URLOf(-1)]
NoPublish == [state |-> "", commitSHA |-> "", targetURL |-> URLOf(-1), runID |-> -1]

SeqsUpTo(S, n) == UNION {[1..k -> S] : k \in 0..n}

\* environment settings read by NewGitHubActionsMonitor
Configs == [GitHubToken : {"", "ghp"}, GitHubRepo : {"", "o/r"},
            GitLabToken : {"", "glp"}, GitLabProjectID : {"", "7"},
            Selector : {"", "sel"}]

VARIABLES variant, config, pc, phase, now, monitoringStart, elapsed,
          runs, scanIdx, currentRun,
          lastRunID, lastStatus, lastConclusion, statusChanged,
          published, publishErr, publishOutcome, tallyErr, everPublished, lastPublished, analyzeCalls,
          everLocated,
          runsErr, detailErrs, everMatched, loopExit, retErr, exitCode,
          analyzeJobsErr, jobsResp, report,
          environ, monitor, srv, request, response, served, inFlight, publishReturn,
          symbolCall

vars == <<variant, config, pc, phase, now, monitoringStart, elapsed,
          runs, scanIdx, currentRun,
          lastRunID, lastStatus, lastConclusion, statusChanged,
          published, publishErr, publishOutcome, tallyErr, everPublished, lastPublished, analyzeCalls,
          everLocated,
          runsErr, detailErrs, everMatched, loopExit, retErr, exitCode,
          analyzeJobsErr, jobsResp, report,
          environ, monitor, srv, request, response, served, inFlight, publishReturn,
          symbolCall>>

\* ---- pure functions ----

\* variant of mapToGitLabState that passes GitHub's spelling of cancelled through
mapToGitLabState_Cancelled(status, conclusion) ==
  CASE status = "queued" -> "pending"
    [] status = "in_progress" -> "running"
    [] status = "completed" ->
         (CASE conclusion = "success" -> "success"
            [] conclusion = "failure" -> "failed"
            [] conclusion = "cancelled" -> "cancelled"
            [] OTHER -> "failed")
    [] OTHER -> "pending"

\* variant of mapToGitLabState with the two non-terminal states exchanged
mapToGitLabState_Exchanged(status, conclusion) ==
  CASE status = "queued" -> "running"
    [] status = "in_progress" -> "pending"
    [] status = "completed" ->
         (CASE conclusion = "success" -> "success"
            [] conclusion = "failure" -> "failed"
            [] conclusion = "cancelled" -> "canceled"
            [] OTHER -> "failed")
    [] OTHER -> "pending"

mapToGitLabState(status, conclusion) ==
  CASE status = "queued" -> "pending"
    [] status = "in_progress" -> "running"
    [] status = "completed" ->
         (CASE conclusion = "success" -> "success"
            [] conclusion = "failure" -> "failed"
            [] conclusion = "cancelled" -> "canceled"
            [] OTHER -> "failed")
    [] OTHER -> "pending"

\* variant of validateConfig that forgets the selector check
validateConfig_NoSelector(gm) ==
  IF gm.GitHubToken = "" THEN "GITHUB_TOKEN is required"
  ELSE IF gm.GitHubRepo = "" THEN "GITHUB_REPO is required"
  ELSE IF gm.GitLabToken = "" THEN "GITLAB_TOKEN is required"
  ELSE IF gm.GitLabProjectID = "" THEN "GITLAB_PROJECT_ID is required"
  ELSE "nil"

\* gm.Selector is BranchName in the branch variant, CommitSHA in the commit variant
validateConfig(gm) ==
  IF gm.GitHubToken = "" THEN "GITHUB_TOKEN is required"
  ELSE IF gm.GitHubRepo = "" THEN "GITHUB_REPO is required"
  ELSE IF gm.GitLabToken = "" THEN "GITLAB_TOKEN is required"
  ELSE IF gm.GitLabProjectID = "" THEN "GITLAB_PROJECT_ID is required"
  ELSE IF gm.Selector = "" THEN "BRANCH_NAME or COMMIT_SHA is required"
  ELSE "nil"

\* the selector values a valid configuration holds (BRANCH_NAME / COMMIT_SHA)
BranchName == "main"
CommitSHA == "abc"

SelectorMatches(v, run) ==
  IF v = "branch" THEN run.HeadBranch = BranchName ELSE run.HeadSHA = CommitSHA

\* variant of NextMatch that takes the next candidate without comparing the selector
NextMatch_AnyRun(v, rs, i) == IF i > Len(rs) THEN 0 ELSE i

\* index of the first candidate at or after i that matches the selector, 0 if none
RECURSIVE NextMatch(_, _, _)
NextMatch(v, rs, i) ==
  IF i > Len(rs) THEN 0
  ELSE IF SelectorMatches(v, rs[i]) THEN i
  ELSE NextMatch(v, rs, i + 1)

\* variant of StatusChanged that leaves the run id out of the comparison
StatusChanged_NoID(run, lStatus, lConclusion, lRunID) ==
  \/ run.Status # lStatus
  \/ run.Conclusion # lConclusion

StatusChanged(run, lStatus, lConclusion, lRunID) ==
  \/ run.Status # lStatus
  \/ run.Conclusion # lConclusion
  \/ run.ID # lRunID

\* variant of TimeoutExceeded that already fires at the ceiling itself
TimeoutExceeded_AtCeiling(e) == e >= Ceiling

TimeoutExceeded(e) == e > Ceiling

\* variant of SearchTimeoutExceeded that already fires at five minutes
SearchTimeoutExceeded_AtCeiling(since) == since >= SearchCeiling

SearchTimeoutExceeded(since) == since > SearchCeiling

\* the status endpoint is keyed by the located record's head SHA (branch
\* variant) or by the configured commit SHA (commit variant)
\* variant of PublishKey that always uses the configured commit
PublishKey_Configured(v, run) == CommitSHA

PublishKey(v, run) == IF v = "branch" THEN run.HeadSHA ELSE CommitSHA

\* updateGitLabStatus returns an error only when the HTTP exchange itself fails
updateGitLabStatus(outcome) == outcome = "transport"

\* ---- initial state ----

\* an environment variable that is not set
Unset == "<unset>"

EnvKeys == {"POLL_INTERVAL", "ENVIRONMENT", "GITHUB_TOKEN", "GITHUB_REPO",
            "GITLAB_TOKEN", "GITLAB_PROJECT_ID", "BRANCH_NAME"}

NoEnviron == [k \in EnvKeys |-> Unset]

\* no GitHubActionsMonitor constructed yet
NoMonitor == [GitHubToken |-> "", GitHubRepo |-> "", GitLabToken |-> "",
              GitLabProjectID |-> "", Selector |-> "", Environment |-> "",
              PollInterval |-> 0]

\* the five fixed parts of a response body: two keys with their values, and the timestamp
NoObject == <<"", "", "", "", -1>>
NoRequest == [method |-> "", path |-> ""]
NoResponse == [code |-> 0, contentType |-> "", body |-> [object |-> NoObject, text |-> ""]]

\* the constructor has not run
ConfigIdle ==
  /\ environ = NoEnviron
  /\ monitor = NoMonitor

\* the HTTP server has not started
ServerIdle ==
  /\ srv = "init"
  /\ request = NoRequest
  /\ response = NoResponse
  /\ served = 0

\* no network call has been started or has returned, no symbol asked for
CallsIdle ==
  /\ inFlight = {}
  /\ publishReturn = "none"
  /\ symbolCall = [status |-> "", conclusion |-> "", symbol |-> ""]

Init ==
  /\ ConfigIdle
  /\ ServerIdle
  /\ CallsIdle
  /\ variant \in Variants
  /\ config \in Configs
  /\ pc = "validate"
  /\ phase = "init"
  /\ now = 0
  /\ monitoringStart = 0
  /\ elapsed = 0
  /\ runs = << >>
  /\ scanIdx = 0
  /\ currentRun = NoRun
  /\ lastRunID = 0
  /\ lastStatus = ""
  /\ lastConclusion = ""
  /\ statusChanged = FALSE
  /\ published = NoPublish
  /\ publishErr = FALSE
  /\ publishOutcome = "none"
  /\ tallyErr = "none"
  /\ everPublished = FALSE
  /\ lastPublished = NoTriple
  /\ analyzeCalls = 0
  /\ everLocated = FALSE
  /\ runsErr = "nil"
  /\ detailErrs = 0
  /\ everMatched = FALSE
  /\ loopExit = "none"
  /\ retErr = "none"
  /\ exitCode = -1
  /\ analyzeJobsErr = "none"
  /\ jobsResp = << >>
  /\ report = << >>

\* ---- actions ----

tickVars == <<runs, scanIdx, currentRun, statusChanged, published, publishErr, publishOutcome,
              tallyErr, runsErr, detailErrs>>
baseline == <<lastRunID, lastStatus, lastConclusion>>
outcomeVars == <<loopExit, retErr, exitCode>>
setupVars == <<variant, config, monitoringStart>>
histVars == <<everPublished, lastPublished, analyzeCalls, everLocated, everMatched>>
analysisVars == <<analyzeJobsErr, jobsResp, report>>

\* the constructor's and the HTTP server's variables, which the loop never touches
configVars == <<environ, monitor>>
serverVars == <<srv, request, response, served>>
otherVars == <<configVars, serverVars, inFlight, publishReturn, symbolCall>>

\* startMonitoring up to the loop: validateConfig, then monitoringStart := time.Now()
Validate ==
  /\ pc = "validate"
  /\ IF validateConfig(config) # "nil"
       THEN /\ retErr' = "configuration error"
            /\ pc' = "returned"
            /\ UNCHANGED phase
       ELSE /\ retErr' = retErr
            /\ phase' = IF variant = "branch" THEN "monitor" ELSE "search"
            /\ pc' = "tick"
  /\ monitoringStart' = now
  /\ UNCHANGED <<otherVars, variant, config, analysisVars, now, elapsed, tickVars, baseline,
                 histVars, loopExit, exitCode>>

\* top of a loop iteration: elapsed is measured (branch variant), the per-tick
\* locals are fresh, and getWorkflowRuns answers 200 with a decodable list
FetchRunsOk ==
  /\ pc = "tick"
  /\ \E t \in ClockPoints, rs \in SeqsUpTo([ID : RunIDs, HeadSHA : SHAs, HeadBranch : Branches], MaxRuns) :
       /\ t >= now
       /\ now' = t
       /\ runs' = rs
       /\ everMatched' = (everMatched \/ NextMatch(variant, rs, 1) # 0)
  /\ runsErr' = "nil"
  /\ detailErrs' = 0
  /\ elapsed' = IF variant = "branch" THEN now - monitoringStart ELSE elapsed
  /\ scanIdx' = 1
  /\ pc' = "scan"
  /\ UNCHANGED <<otherVars, setupVars, analysisVars, phase, currentRun, statusChanged, published, publishErr, publishOutcome, tallyErr,
                 baseline, everPublished, lastPublished, analyzeCalls, everLocated, outcomeVars>>

\* variant of FetchRunsErr whose timeout return is not confined to the search loop
FetchRunsErr_TimeoutAnywhere ==
  /\ pc = "tick"
  /\ \E t \in ClockPoints, e \in FetchErrors :
       /\ t >= now
       /\ now' = t
       /\ runsErr' = e
       /\ detailErrs' = 0
       /\ IF variant = "commit" /\ SearchTimeoutExceeded(t - monitoringStart)
            THEN /\ retErr' = "timeout waiting for GitHub Actions"
                 /\ pc' = "returned"
            ELSE /\ retErr' = retErr
                 /\ pc' = "sleep"
  /\ elapsed' = IF variant = "branch" THEN now - monitoringStart ELSE elapsed
  /\ UNCHANGED <<otherVars, setupVars, analysisVars, phase, runs, scanIdx, currentRun, statusChanged, published,
                 publishErr, publishOutcome, tallyErr, baseline, histVars, loopExit, exitCode>>

\* getWorkflowRuns returns an error (transport, non-200 or undecodable body)
FetchRunsErr ==
  /\ pc = "tick"
  /\ \E t \in ClockPoints, e \in FetchErrors :
       /\ t >= now
       /\ now' = t
       /\ runsErr' = e
       /\ detailErrs' = 0
       /\ IF phase = "search" /\ SearchTimeoutExceeded(t - monitoringStart)
            THEN /\ retErr' = "timeout waiting for GitHub Actions"
                 /\ pc' = "returned"
            ELSE /\ retErr' = retErr
                 /\ pc' = "sleep"
  /\ elapsed' = IF variant = "branch" THEN now - monitoringStart ELSE elapsed
  /\ UNCHANGED <<otherVars, setupVars, analysisVars, phase, runs, scanIdx, currentRun, statusChanged, published,
                 publishErr, publishOutcome, tallyErr, baseline, histVars, loopExit, exitCode>>

\* variant of DetailFetchOk that keeps following the run of the baseline's id
\* while the list still has it
DetailFetchOk_PrefersTracked ==
  /\ pc = "scan"
  /\ NextMatch(variant, runs, scanIdx) # 0
  /\ LET tracked == {i \in scanIdx..Len(runs) :
                       SelectorMatches(variant, runs[i]) /\ runs[i].ID = lastRunID}
         r == IF tracked # {}
                THEN runs[CHOOSE i \in tracked : \A j \in tracked : i <= j]
                ELSE runs[NextMatch(variant, runs, scanIdx)]
     IN  \E st \in Statuses, co \in Conclusions :
            currentRun' = [ID |-> r.ID, Status |-> st, Conclusion |-> co,
                           HeadSHA |-> r.HeadSHA, HeadBranch |-> r.HeadBranch,
                           HTMLURL |-> URLOf(r.ID)]
  /\ everLocated' = TRUE
  /\ IF phase = "search"
       THEN /\ phase' = "monitor"
            /\ pc' = "tick"
       ELSE /\ phase' = phase
            /\ pc' = "located"
  /\ runs' = << >>
  /\ scanIdx' = 0
  /\ UNCHANGED <<otherVars, setupVars, analysisVars, now, elapsed, statusChanged, published, publishErr, publishOutcome, tallyErr,
                 runsErr, detailErrs, baseline, everPublished, lastPublished, analyzeCalls, everMatched,
                 outcomeVars>>

\* candidate scan: the next matching summary is re-fetched by id and the
\* detail record is taken as the run of this iteration (break: the list is
\* not read again, so it is dropped from the state)
DetailFetchOk ==
  /\ pc = "scan"
  /\ NextMatch(variant, runs, scanIdx) # 0
  /\ LET r == runs[NextMatch(variant, runs, scanIdx)] IN
       \E st \in Statuses, co \in Conclusions :
          currentRun' = [ID |-> r.ID, Status |-> st, Conclusion |-> co,
                         HeadSHA |-> r.HeadSHA, HeadBranch |-> r.HeadBranch,
                         HTMLURL |-> URLOf(r.ID)]
  /\ everLocated' = TRUE
  /\ IF phase = "search"
       THEN /\ phase' = "monitor"
            /\ pc' = "tick"
       ELSE /\ phase' = phase
            /\ pc' = "located"
  /\ runs' = << >>
  /\ scanIdx' = 0
  /\ UNCHANGED <<otherVars, setupVars, analysisVars, now, elapsed, statusChanged, published, publishErr, publishOutcome, tallyErr,
                 runsErr, detailErrs, baseline, everPublished, lastPublished, analyzeCalls, everMatched,
                 outcomeVars>>

\* variant of DetailFetchErr that breaks out of the candidate scan
DetailFetchErr_Break ==
  /\ pc = "scan"
  /\ NextMatch(variant, runs, scanIdx) # 0
  /\ scanIdx' = Len(runs) + 1
  /\ detailErrs' = detailErrs + 1
  /\ UNCHANGED <<otherVars, setupVars, analysisVars, pc, phase, now, elapsed, runs, currentRun,
                 statusChanged, published, publishErr, publishOutcome, tallyErr, runsErr,
                 baseline, histVars, outcomeVars>>

\* the detail re-fetch of a matching candidate fails: the scan goes on with
\* the candidates after it
DetailFetchErr ==
  /\ pc = "scan"
  /\ NextMatch(variant, runs, scanIdx) # 0
  /\ scanIdx' = NextMatch(variant, runs, scanIdx) + 1
  /\ detailErrs' = detailErrs + 1
  /\ UNCHANGED <<otherVars, setupVars, analysisVars, pc, phase, now, elapsed, runs, currentRun,
                 statusChanged, published, publishErr, publishOutcome, tallyErr, runsErr,
                 baseline, histVars, outcomeVars>>

\* variant of NotFound that forgets the tracked state when the run is not listed
NotFound_ResetsBaseline ==
  /\ pc = "scan"
  /\ NextMatch(variant, runs, scanIdx) = 0
  /\ IF phase = "search" /\ SearchTimeoutExceeded(now - monitoringStart)
       THEN /\ retErr' = "timeout: no workflow found"
            /\ pc' = "returned"
       ELSE /\ retErr' = retErr
            /\ pc' = "sleep"
  /\ lastRunID' = 0
  /\ lastStatus' = ""
  /\ lastConclusion' = ""
  /\ UNCHANGED <<otherVars, setupVars, analysisVars, phase, now, elapsed, tickVars, histVars,
                 loopExit, exitCode>>

\* the scan ends with currentRun == nil
NotFound ==
  /\ pc = "scan"
  /\ NextMatch(variant, runs, scanIdx) = 0
  /\ IF phase = "search" /\ SearchTimeoutExceeded(now - monitoringStart)
       THEN /\ retErr' = "timeout: no workflow found"
            /\ pc' = "returned"
       ELSE /\ retErr' = retErr
            /\ pc' = "sleep"
  /\ UNCHANGED <<otherVars, setupVars, analysisVars, phase, now, elapsed, tickVars, baseline, histVars,
                 loopExit, exitCode>>

\* variant of Compare that takes the first located run as the baseline
\* without declaring a change
Compare_AdoptsFirst ==
  /\ pc = "located"
  /\ statusChanged' = (everPublished /\ StatusChanged(currentRun, lastStatus, lastConclusion, lastRunID))
  /\ pc' = IF statusChanged' THEN "tally"
           ELSE IF variant = "commit" /\ currentRun.Status = "in_progress" THEN "tally"
           ELSE "completion"
  /\ UNCHANGED <<otherVars, setupVars, analysisVars, phase, now, elapsed, runs, scanIdx, currentRun, published,
                 publishErr, publishOutcome, tallyErr, runsErr, detailErrs, baseline, histVars, outcomeVars>>

\* variant of Compare that goes to the publish call before the job tally
Compare_SkipsTally ==
  /\ pc = "located"
  /\ statusChanged' = StatusChanged(currentRun, lastStatus, lastConclusion, lastRunID)
  /\ pc' = IF statusChanged' THEN "publish"
           ELSE IF variant = "commit" /\ currentRun.Status = "in_progress" THEN "tally"
           ELSE "completion"
  /\ UNCHANGED <<otherVars, setupVars, analysisVars, phase, now, elapsed, runs, scanIdx, currentRun, published,
                 publishErr, publishOutcome, tallyErr, runsErr, detailErrs, baseline, histVars, outcomeVars>>

\* statusChanged := ... ; the changed branch starts with logDetailedStatus, and
\* the commit variant also tallies an unchanged in_progress run
Compare ==
  /\ pc = "located"
  /\ statusChanged' = StatusChanged(currentRun, lastStatus, lastConclusion, lastRunID)
  /\ pc' = IF statusChanged' THEN "tally"
           ELSE IF variant = "commit" /\ currentRun.Status = "in_progress" THEN "tally"
           ELSE "completion"
  /\ UNCHANGED <<otherVars, setupVars, analysisVars, phase, now, elapsed, runs, scanIdx, currentRun, published,
                 publishErr, publishOutcome, tallyErr, runsErr, detailErrs, baseline, histVars, outcomeVars>>

\* variant of LogDetailedStatus whose failed jobs fetch abandons the tick
LogDetailedStatus_ErrEndsTick ==
  /\ pc = "tally"
  /\ \E ok \in BOOLEAN :
       /\ tallyErr' = IF ok THEN "nil" ELSE "error"
       /\ pc' = IF ~ok THEN "sleep"
                ELSE IF statusChanged THEN "publish" ELSE "completion"
  /\ UNCHANGED <<otherVars, setupVars, analysisVars, phase, now, elapsed, runs, scanIdx, currentRun,
                 statusChanged, published, publishErr, publishOutcome, runsErr, detailErrs,
                 baseline, histVars, outcomeVars>>

\* variant of LogDetailedStatus after which the publish call is left out
LogDetailedStatus_SkipsPublish ==
  /\ pc = "tally"
  /\ \E ok \in BOOLEAN : tallyErr' = IF ok THEN "nil" ELSE "error"
  /\ pc' = "completion"
  /\ UNCHANGED <<otherVars, setupVars, analysisVars, phase, now, elapsed, runs, scanIdx, currentRun,
                 statusChanged, published, publishErr, publishOutcome, runsErr, detailErrs,
                 baseline, histVars, outcomeVars>>

\* logDetailedStatus: one jobs fetch, whose failure is only logged
LogDetailedStatus ==
  /\ pc = "tally"
  /\ \E ok \in BOOLEAN : tallyErr' = IF ok THEN "nil" ELSE "error"
  /\ pc' = IF statusChanged THEN "publish" ELSE "completion"
  /\ UNCHANGED <<otherVars, setupVars, analysisVars, phase, now, elapsed, runs, scanIdx, currentRun,
                 statusChanged, published, publishErr, publishOutcome, runsErr, detailErrs,
                 baseline, histVars, outcomeVars>>

\* variant of Publish that commits the baseline only after a publish without error
Publish_CommitOnSuccess ==
  /\ pc = "publish"
  /\ \E outcome \in PublishOutcomes :
       /\ publishOutcome' = outcome
       /\ publishErr' = updateGitLabStatus(outcome)
       /\ IF updateGitLabStatus(outcome)
            THEN UNCHANGED baseline
            ELSE /\ lastStatus' = currentRun.Status
                 /\ lastConclusion' = currentRun.Conclusion
                 /\ lastRunID' = currentRun.ID
  /\ published' = [state |-> mapToGitLabState(currentRun.Status, currentRun.Conclusion),
                   commitSHA |-> PublishKey(variant, currentRun),
                   targetURL |-> currentRun.HTMLURL,
                   runID |-> currentRun.ID]
  /\ everPublished' = TRUE
  /\ lastPublished' = <<currentRun.ID, currentRun.Status, currentRun.Conclusion>>
  /\ pc' = "completion"
  /\ UNCHANGED <<otherVars, setupVars, analysisVars, phase, now, elapsed, runs, scanIdx, currentRun,
                 statusChanged, tallyErr, runsErr, detailErrs, analyzeCalls, everLocated, everMatched,
                 outcomeVars>>

\* updateGitLabStatus, then the baseline is committed whatever it returned
Publish ==
  /\ pc = "publish"
  /\ \E outcome \in PublishOutcomes :
       /\ publishOutcome' = outcome
       /\ publishErr' = updateGitLabStatus(outcome)
  /\ published' = [state |-> mapToGitLabState(currentRun.Status, currentRun.Conclusion),
                   commitSHA |-> PublishKey(variant, currentRun),
                   targetURL |-> currentRun.HTMLURL,
                   runID |-> currentRun.ID]
  /\ everPublished' = TRUE
  /\ lastPublished' = <<currentRun.ID, currentRun.Status, currentRun.Conclusion>>
  /\ lastStatus' = currentRun.Status
  /\ lastConclusion' = currentRun.Conclusion
  /\ lastRunID' = currentRun.ID
  /\ pc' = "completion"
  /\ UNCHANGED <<otherVars, setupVars, analysisVars, phase, now, elapsed, runs, scanIdx, currentRun, statusChanged,
                 tallyErr, runsErr, detailErrs, analyzeCalls, everLocated, everMatched, outcomeVars>>

\* variant of Completion that breaks only for a success or an analysed failure
Completion_BreakOnSuccessOnly ==
  /\ pc = "completion"
  /\ IF currentRun.Status = "completed" /\ currentRun.Conclusion = "failure"
       THEN /\ pc' = "analyze"
            /\ UNCHANGED loopExit
       ELSE IF currentRun.Status = "completed" /\ currentRun.Conclusion = "success"
              THEN /\ pc' = "return"
                   /\ loopExit' = "Terminal"
              ELSE IF variant = "branch" /\ TimeoutExceeded(elapsed)
                     THEN /\ pc' = "return"
                          /\ loopExit' = "TimedOut"
                     ELSE /\ pc' = "sleep"
                          /\ UNCHANGED loopExit
  /\ UNCHANGED <<otherVars, setupVars, analysisVars, phase, now, elapsed, tickVars, baseline, histVars,
                 retErr, exitCode>>

\* variant of Completion whose ceiling also ends the commit variant's loop
Completion_CeilingInBothVariants ==
  /\ pc = "completion"
  /\ IF currentRun.Status = "completed"
       THEN IF currentRun.Conclusion = "failure"
              THEN /\ pc' = "analyze"
                   /\ UNCHANGED loopExit
              ELSE /\ pc' = "return"
                   /\ loopExit' = "Terminal"
       ELSE IF TimeoutExceeded(IF variant = "branch" THEN elapsed ELSE now - monitoringStart)
              THEN /\ pc' = "return"
                   /\ loopExit' = "TimedOut"
              ELSE /\ pc' = "sleep"
                   /\ UNCHANGED loopExit
  /\ UNCHANGED <<otherVars, setupVars, analysisVars, phase, now, elapsed, tickVars, baseline, histVars,
                 retErr, exitCode>>

\* variant of Completion with the timeout check ahead of the completion block
Completion_TimeoutFirst ==
  /\ pc = "completion"
  /\ IF variant = "branch" /\ TimeoutExceeded(elapsed)
       THEN /\ pc' = "return"
            /\ loopExit' = "TimedOut"
       ELSE IF currentRun.Status = "completed"
              THEN IF currentRun.Conclusion = "failure"
                     THEN /\ pc' = "analyze"
                          /\ UNCHANGED loopExit
                     ELSE /\ pc' = "return"
                          /\ loopExit' = "Terminal"
              ELSE /\ pc' = "sleep"
                   /\ UNCHANGED loopExit
  /\ UNCHANGED <<otherVars, setupVars, analysisVars, phase, now, elapsed, tickVars, baseline, histVars,
                 retErr, exitCode>>

\* variant of Completion that analyses every completed run that did not succeed
Completion_AnalyzeNonSuccess ==
  /\ pc = "completion"
  /\ IF currentRun.Status = "completed"
       THEN IF currentRun.Conclusion # "success"
              THEN /\ pc' = "analyze"
                   /\ UNCHANGED loopExit
              ELSE /\ pc' = "return"
                   /\ loopExit' = "Terminal"
       ELSE IF variant = "branch" /\ TimeoutExceeded(elapsed)
              THEN /\ pc' = "return"
                   /\ loopExit' = "TimedOut"
              ELSE /\ pc' = "sleep"
                   /\ UNCHANGED loopExit
  /\ UNCHANGED <<otherVars, setupVars, analysisVars, phase, now, elapsed, tickVars, baseline, histVars,
                 retErr, exitCode>>

\* variant of Completion that breaks on a failed run without analysing it
Completion_NoAnalyze ==
  /\ pc = "completion"
  /\ IF currentRun.Status = "completed"
       THEN /\ pc' = "return"
            /\ loopExit' = "Terminal"
       ELSE IF variant = "branch" /\ TimeoutExceeded(elapsed)
              THEN /\ pc' = "return"
                   /\ loopExit' = "TimedOut"
              ELSE /\ pc' = "sleep"
                   /\ UNCHANGED loopExit
  /\ UNCHANGED <<otherVars, setupVars, analysisVars, phase, now, elapsed, tickVars, baseline, histVars,
                 retErr, exitCode>>

\* "Handle completion", then the timeout check of the branch variant
Completion ==
  /\ pc = "completion"
  /\ IF currentRun.Status = "completed"
       THEN IF currentRun.Conclusion = "failure"
              THEN /\ pc' = "analyze"
                   /\ UNCHANGED loopExit
              ELSE /\ pc' = "return"
                   /\ loopExit' = "Terminal"
       ELSE IF variant = "branch" /\ TimeoutExceeded(elapsed)
              THEN /\ pc' = "return"
                   /\ loopExit' = "TimedOut"
              ELSE /\ pc' = "sleep"
                   /\ UNCHANGED loopExit
  /\ UNCHANGED <<otherVars, setupVars, analysisVars, phase, now, elapsed, tickVars, baseline, histVars,
                 retErr, exitCode>>

\* variant of AnalyzeFailure in which a failed jobs fetch aborts monitoring
AnalyzeFailure_Abort ==
  /\ pc = "analyze"
  /\ \E ok \in BOOLEAN :
       /\ analyzeJobsErr' = IF ok THEN "nil" ELSE "error"
       /\ IF ok
            THEN /\ loopExit' = "Terminal"
                 /\ retErr' = retErr
                 /\ pc' = "return"
            ELSE /\ loopExit' = loopExit
                 /\ retErr' = "failed to analyze"
                 /\ pc' = "returned"
  /\ analyzeCalls' = analyzeCalls + 1
  /\ UNCHANGED <<otherVars, setupVars, jobsResp, report, phase, now, elapsed, tickVars, baseline, everPublished,
                 lastPublished,
                 everLocated, everMatched, exitCode>>

\* analyzeFailure: one jobs fetch, whose failure is only logged; then break
AnalyzeFailure ==
  /\ pc = "analyze"
  /\ \E ok \in BOOLEAN :
       analyzeJobsErr' = IF ok THEN "nil" ELSE "error"
  /\ analyzeCalls' = analyzeCalls + 1
  /\ loopExit' = "Terminal"
  /\ pc' = "return"
  /\ UNCHANGED <<otherVars, setupVars, jobsResp, report, phase, now, elapsed, tickVars, baseline, everPublished,
                 lastPublished,
                 everLocated, everMatched, retErr, exitCode>>

\* variant of Sleep that clears the tracked state with the tick's variables
Sleep_ClearsBaseline ==
  /\ pc = "sleep"
  /\ \E t \in ClockPoints :
       /\ t >= now
       /\ now' = t
  /\ runs' = << >>
  /\ scanIdx' = 0
  /\ currentRun' = NoRun
  /\ statusChanged' = FALSE
  /\ published' = NoPublish
  /\ publishErr' = FALSE
  /\ publishOutcome' = "none"
  /\ tallyErr' = "none"
  /\ runsErr' = "nil"
  /\ detailErrs' = 0
  /\ lastRunID' = 0
  /\ lastStatus' = ""
  /\ lastConclusion' = ""
  /\ pc' = "tick"
  /\ UNCHANGED <<otherVars, setupVars, analysisVars, phase, elapsed, histVars, outcomeVars>>

\* time.Sleep(gm.PollInterval), then the next iteration with fresh locals
Sleep ==
  /\ pc = "sleep"
  /\ \E t \in ClockPoints :
       /\ t >= now
       /\ now' = t
  /\ runs' = << >>
  /\ scanIdx' = 0
  /\ currentRun' = NoRun
  /\ statusChanged' = FALSE
  /\ published' = NoPublish
  /\ publishErr' = FALSE
  /\ publishOutcome' = "none"
  /\ tallyErr' = "none"
  /\ runsErr' = "nil"
  /\ detailErrs' = 0
  /\ pc' = "tick"
  /\ UNCHANGED <<otherVars, setupVars, analysisVars, phase, elapsed, baseline, histVars, outcomeVars>>

\* variant of ReturnNil that reports a failed deployment as an error
ReturnNil_FailureIsError ==
  /\ pc = "return"
  /\ retErr' = IF currentRun.Conclusion = "failure" THEN "deployment failed" ELSE "nil"
  /\ pc' = "returned"
  /\ UNCHANGED <<otherVars, setupVars, analysisVars, phase, now, elapsed, tickVars, baseline, histVars,
                 loopExit, exitCode>>

\* variant of ReturnNil that reports the timeout exit as an error
ReturnNil_TimeoutIsError ==
  /\ pc = "return"
  /\ retErr' = IF loopExit = "TimedOut" THEN "monitoring timeout" ELSE "nil"
  /\ pc' = "returned"
  /\ UNCHANGED <<otherVars, setupVars, analysisVars, phase, now, elapsed, tickVars, baseline, histVars,
                 loopExit, exitCode>>

\* "return nil" after the loop
ReturnNil ==
  /\ pc = "return"
  /\ retErr' = "nil"
  /\ pc' = "returned"
  /\ UNCHANGED <<otherVars, setupVars, analysisVars, phase, now, elapsed, tickVars, baseline, histVars,
                 loopExit, exitCode>>

\* main: os.Exit(1) on an error, exit code 0 otherwise
Main ==
  /\ pc = "returned"
  /\ exitCode' = IF retErr # "nil" THEN 1 ELSE 0
  /\ pc' = "exited"
  /\ UNCHANGED <<otherVars, setupVars, analysisVars, phase, now, elapsed, tickVars, baseline, histVars,
                 loopExit, retErr>>

Next ==
  \/ Validate
  \/ FetchRunsOk
  \/ FetchRunsErr
  \/ DetailFetchOk
  \/ DetailFetchErr
  \/ NotFound
  \/ Compare
  \/ LogDetailedStatus
  \/ Publish
  \/ Completion
  \/ AnalyzeFailure
  \/ Sleep
  \/ ReturnNil
  \/ Main

Spec == Init /\ [][Next]_vars

\* ---- analyzeFailure in detail: the jobs response and the failure points ----

MaxJobs == 2
MaxSteps == 2

\* time.Second, in the model's time unit of half a second
Second == 2

\* an empty started_at / completed_at string
NoStamp == -1

\* a failure point logged without a "Failed after" line
NoDuration == -1

JobConclusions == {"success", "failure"}
StepConclusions == {"success", "failure"}

\* (started_at, completed_at) of a step, in half seconds
StampPairs == {<<2, 16>>, <<0, 15>>, <<NoStamp, 14>>, <<0, NoStamp>>}

\* GitHubJobStep; the API numbers the steps of a job 1, 2, ... in order
StepsAt(k) ==
  {[Number |-> k, Conclusion |-> c, StartedAt |-> p[1], CompletedAt |-> p[2]] :
     c \in StepConclusions, p \in StampPairs}

StepSeqs ==
  UNION {{st \in [1..n -> UNION {StepsAt(k) : k \in 1..n}] :
            \A k \in 1..n : st[k].Number = k} : n \in 0..MaxSteps}

\* GitHubJob
Jobs == [Conclusion : JobConclusions, Steps : StepSeqs]

\* variant of Round that cuts the fraction off
Round_Truncate(d, m) == d - (d % m)

\* Duration.Round(m) for d >= 0: halfway values round away from zero
Round(d, m) ==
  LET r == d % m
  IN  IF r + r < m THEN d - r ELSE d + m - r

\* the "Failed after" value of a failed step, if it is logged
FailedAfter(step) ==
  IF step.StartedAt # NoStamp /\ step.CompletedAt # NoStamp
    THEN Round(step.CompletedAt - step.StartedAt, Second)
    ELSE NoDuration

\* the inner loop: for _, step := range job.Steps
RECURSIVE StepPoints(_, _, _)
StepPoints(j, steps, k) ==
  IF k > Len(steps) THEN << >>
  ELSE (IF steps[k].Conclusion = "failure"
          THEN <<[job |-> j, number |-> steps[k].Number,
                  duration |-> FailedAfter(steps[k])]>>
          ELSE << >>) \o StepPoints(j, steps, k + 1)

\* variant of JobPoints that walks the steps of every job
RECURSIVE JobPoints_AnyJob(_, _)
JobPoints_AnyJob(jobs, j) ==
  IF j > Len(jobs) THEN << >>
  ELSE StepPoints(j, jobs[j].Steps, 1) \o JobPoints_AnyJob(jobs, j + 1)

\* the outer loop: for _, job := range jobs.Jobs; a job is named by its
\* position in the response
RECURSIVE JobPoints(_, _)
JobPoints(jobs, j) ==
  IF j > Len(jobs) THEN << >>
  ELSE (IF jobs[j].Conclusion = "failure"
          THEN StepPoints(j, jobs[j].Steps, 1)
          ELSE << >>) \o JobPoints(jobs, j + 1)

\* analyzeFailure is entered for a completed run with conclusion failure,
\* right after its status was published
InitAnalyze ==
  /\ ConfigIdle
  /\ ServerIdle
  /\ CallsIdle
  /\ variant \in Variants
  /\ config = [GitHubToken |-> "ghp", GitHubRepo |-> "o/r", GitLabToken |-> "glp",
               GitLabProjectID |-> "7", Selector |-> "sel"]
  /\ pc = "analyze"
  /\ phase = "monitor"
  /\ now = 0
  /\ monitoringStart = 0
  /\ elapsed = 0
  /\ runs = << >>
  /\ scanIdx = 0
  /\ currentRun = [ID |-> 1, Status |-> "completed", Conclusion |-> "failure",
                   HeadSHA |-> CommitSHA, HeadBranch |-> BranchName,
                   HTMLURL |-> URLOf(1)]
  /\ lastRunID = 1
  /\ lastStatus = "completed"
  /\ lastConclusion = "failure"
  /\ statusChanged = TRUE
  /\ published = [state |-> "failed", commitSHA |-> CommitSHA, targetURL |-> URLOf(1),
                  runID |-> 1]
  /\ publishErr = FALSE
  /\ publishOutcome = "ok_2xx"
  /\ tallyErr = "nil"
  /\ everPublished = TRUE
  /\ lastPublished = <<1, "completed", "failure">>
  /\ analyzeCalls = 0
  /\ everLocated = TRUE
  /\ runsErr = "nil"
  /\ detailErrs = 0
  /\ everMatched = TRUE
  /\ loopExit = "none"
  /\ retErr = "none"
  /\ exitCode = -1
  /\ analyzeJobsErr = "none"
  /\ jobsResp = << >>
  /\ report = << >>

loopVars == <<setupVars, phase, now, elapsed, tickVars, baseline, histVars, outcomeVars>>

\* getWorkflowJobs answers with a decoded jobs response
GetWorkflowJobsOk ==
  /\ pc = "analyze"
  /\ \E n \in 0..MaxJobs : \E js \in [1..n -> Jobs] : jobsResp' = js
  /\ analyzeJobsErr' = "nil"
  /\ pc' = "walk"
  /\ UNCHANGED <<otherVars, loopVars, report>>

\* getWorkflowJobs fails: logged, analyzeFailure returns
GetWorkflowJobsErr ==
  /\ pc = "analyze"
  /\ analyzeJobsErr' = "error"
  /\ pc' = "analyzed"
  /\ UNCHANGED <<otherVars, loopVars, jobsResp, report>>

\* the two nested loops over jobs and steps
WalkJobs ==
  /\ pc = "walk"
  /\ report' = JobPoints(jobsResp, 1)
  /\ pc' = "analyzed"
  /\ UNCHANGED <<otherVars, loopVars, analyzeJobsErr, jobsResp>>

NextAnalyze ==
  \/ GetWorkflowJobsOk
  \/ GetWorkflowJobsErr
  \/ WalkJobs

SpecAnalyze == InitAnalyze /\ [][NextAnalyze]_vars

\* ---- NewGitHubActionsMonitor: the settings read from the environment ----

\* the default of pollInterval, in seconds
DefaultPollInterval == 10

PollIntervalTexts == {Unset, "", "30s", "1m", "0s", "abc", "10"}
EnvironmentTexts == {Unset, "", "staging"}

Environs ==
  {e \in [EnvKeys -> {Unset, "", "30s", "1m", "0s", "abc", "10", "staging", "set"}] :
     /\ e["POLL_INTERVAL"] \in PollIntervalTexts
     /\ e["ENVIRONMENT"] \in EnvironmentTexts
     /\ \A k \in EnvKeys \ {"POLL_INTERVAL", "ENVIRONMENT"} : e[k] \in {Unset, "set"}}

\* os.Getenv: the value, or the empty string for a variable that is not set
Getenv(e, key) == IF e[key] = Unset THEN "" ELSE e[key]

\* time.ParseDuration on the texts above, in seconds: a number needs a unit
ParseDuration(text) ==
  CASE text = "30s" -> [err |-> FALSE, d |-> 30]
    [] text = "1m" -> [err |-> FALSE, d |-> 60]
    [] text = "0s" -> [err |-> FALSE, d |-> 0]
    [] OTHER -> [err |-> TRUE, d |-> 0]

\* variant of pollIntervalOf that takes whatever ParseDuration returned
pollIntervalOf_IgnoresErr(e) ==
  IF Getenv(e, "POLL_INTERVAL") # ""
    THEN ParseDuration(Getenv(e, "POLL_INTERVAL")).d
    ELSE DefaultPollInterval

\* pollInterval := 10 * time.Second, replaced when POLL_INTERVAL parses
pollIntervalOf(e) ==
  IF Getenv(e, "POLL_INTERVAL") # "" /\ ~ParseDuration(Getenv(e, "POLL_INTERVAL")).err
    THEN ParseDuration(Getenv(e, "POLL_INTERVAL")).d
    ELSE DefaultPollInterval

\* environment := os.Getenv("ENVIRONMENT"), "unknown" when empty
environmentOf(e) ==
  IF Getenv(e, "ENVIRONMENT") = "" THEN "unknown" ELSE Getenv(e, "ENVIRONMENT")

\* the loop before validateConfig, with a complete configuration
LoopIdle ==
  /\ variant = "branch"
  /\ config = [GitHubToken |-> "ghp", GitHubRepo |-> "o/r", GitLabToken |-> "glp",
               GitLabProjectID |-> "7", Selector |-> "sel"]
  /\ pc = "validate"
  /\ phase = "init"
  /\ now = 0
  /\ monitoringStart = 0
  /\ elapsed = 0
  /\ runs = << >>
  /\ scanIdx = 0
  /\ currentRun = NoRun
  /\ lastRunID = 0
  /\ lastStatus = ""
  /\ lastConclusion = ""
  /\ statusChanged = FALSE
  /\ published = NoPublish
  /\ publishErr = FALSE
  /\ publishOutcome = "none"
  /\ tallyErr = "none"
  /\ everPublished = FALSE
  /\ lastPublished = NoTriple
  /\ analyzeCalls = 0
  /\ everLocated = FALSE
  /\ runsErr = "nil"
  /\ detailErrs = 0
  /\ everMatched = FALSE
  /\ loopExit = "none"
  /\ retErr = "none"
  /\ exitCode = -1
  /\ analyzeJobsErr = "none"
  /\ jobsResp = << >>
  /\ report = << >>

InitConfig ==
  /\ LoopIdle
  /\ ServerIdle
  /\ CallsIdle
  /\ environ \in Environs
  /\ monitor = NoMonitor

NewGitHubActionsMonitor ==
  /\ monitor = NoMonitor
  /\ monitor' = [GitHubToken |-> Getenv(environ, "GITHUB_TOKEN"),
                 GitHubRepo |-> Getenv(environ, "GITHUB_REPO"),
                 GitLabToken |-> Getenv(environ, "GITLAB_TOKEN"),
                 GitLabProjectID |-> Getenv(environ, "GITLAB_PROJECT_ID"),
                 Selector |-> Getenv(environ, "BRANCH_NAME"),
                 Environment |-> environmentOf(environ),
                 PollInterval |-> pollIntervalOf(environ)]
  /\ UNCHANGED <<loopVars, analysisVars, pc, serverVars, inFlight, publishReturn, symbolCall, environ>>

NextConfig == NewGitHubActionsMonitor

SpecConfig == InitConfig /\ [][NextConfig]_vars

\* ---- the HTTP server of src/main.go ----

MaxRequests == 3

StatusOK == 200
StatusCreated == 201
StatusInternalServerError == 500

Methods == {"GET", "POST", "PUT"}
Paths == {"/health", "/", "/calculate", "/health/"}

\* time.Now() as seen by a handler
Instants == {1, 2, 3}

\* the JSON object a handler encodes
HealthObject(t) == <<"status", "healthy", "service", "go-server", t>>
DefaultObject(t) == <<"message", "Welcome to the Go Server!", "version", "1.0.0", t>>

\* variant of Respond in which the later http.Error sets the status
Respond_ErrorSetsStatus(object, encodeOk) ==
  [code |-> IF encodeOk THEN StatusOK ELSE StatusInternalServerError,
   contentType |-> "application/json",
   body |-> IF encodeOk THEN [object |-> object, text |-> ""]
            ELSE [object |-> NoObject, text |-> "Internal Server Error"]]

\* what the client gets from a handler that sets the content type, writes
\* the header with StatusOK and then encodes the object: when the encoder's
\* write fails, http.Error cannot replace the status that was already
\* written and only appends its text
Respond(object, encodeOk) ==
  [code |-> StatusOK,
   contentType |-> "application/json",
   body |-> IF encodeOk THEN [object |-> object, text |-> ""]
            ELSE [object |-> NoObject, text |-> "Internal Server Error"]]

InitServer ==
  /\ LoopIdle
  /\ ConfigIdle
  /\ ServerIdle
  /\ CallsIdle

monitorVars == <<loopVars, analysisVars, pc, configVars, inFlight, publishReturn, symbolCall>>

\* server.ListenAndServe() starts serving
ListenAndServe ==
  /\ srv = "init"
  /\ srv' = "listening"
  /\ UNCHANGED <<monitorVars, request, response, served>>

\* server.ListenAndServe() returns an error: log.Fatalf
ListenAndServeErr ==
  /\ srv = "init"
  /\ srv' = "fatal"
  /\ UNCHANGED <<monitorVars, request, response, served>>

\* a request arrives and the mux picks its handler
Accept ==
  /\ srv = "listening"
  /\ served < MaxRequests
  /\ \E m \in Methods, p \in Paths : request' = [method |-> m, path |-> p]
  /\ response' = NoResponse
  /\ srv' = "handling"
  /\ UNCHANGED <<monitorVars, served>>

\* mux.HandleFunc("/health", healthHandler): the exact path only
healthHandler ==
  /\ srv = "handling"
  /\ request.path = "/health"
  /\ \E t \in Instants, encodeOk \in BOOLEAN :
       response' = Respond(HealthObject(t), encodeOk)
  /\ served' = served + 1
  /\ srv' = "listening"
  /\ UNCHANGED <<monitorVars, request>>

\* mux.HandleFunc("/", defaultHandler): every other path
defaultHandler ==
  /\ srv = "handling"
  /\ request.path # "/health"
  /\ \E t \in Instants, encodeOk \in BOOLEAN :
       response' = Respond(DefaultObject(t), encodeOk)
  /\ served' = served + 1
  /\ srv' = "listening"
  /\ UNCHANGED <<monitorVars, request>>

NextServer ==
  \/ ListenAndServe
  \/ ListenAndServeErr
  \/ Accept
  \/ healthHandler
  \/ defaultHandler

SpecServer == InitServer /\ [][NextServer]_vars

\* ---- the branch variant's loop with every network call split into its
\* ---- start and its return

CallKinds == {"runs", "detail", "jobs", "publish"}

InitCalls ==
  /\ LoopIdle
  /\ ConfigIdle
  /\ ServerIdle
  /\ CallsIdle

\* what the loop's calls never touch
callFrame == <<configVars, serverVars, symbolCall, setupVars, analysisVars, histVars,
               published, publishErr, publishOutcome, tallyErr, detailErrs, retErr, exitCode>>

\* the same without the triple of the last publisher call
callRest == <<configVars, serverVars, symbolCall, setupVars, analysisVars,
              everPublished, analyzeCalls, everLocated, everMatched,
              published, publishErr, publishOutcome, tallyErr, detailErrs, retErr, exitCode>>

\* validateConfig accepts the complete configuration
EnterLoop ==
  /\ pc = "validate"
  /\ phase' = "monitor"
  /\ pc' = "tick"
  /\ UNCHANGED <<callFrame, publishReturn, inFlight, now, elapsed, runs, scanIdx, currentRun, statusChanged,
                 runsErr, baseline, loopExit>>

\* elapsed := time.Since(monitoringStart); gm.getWorkflowRuns() is entered
GetWorkflowRunsCall ==
  /\ pc = "tick"
  /\ elapsed' = now - monitoringStart
  /\ inFlight' = inFlight \cup {"runs"}
  /\ pc' = "runsCall"
  /\ UNCHANGED <<callFrame, publishReturn, phase, now, runs, scanIdx, currentRun, statusChanged, runsErr,
                 baseline, loopExit>>

\* getWorkflowRuns returns the list or an error
GetWorkflowRunsReturn ==
  /\ pc = "runsCall"
  /\ inFlight' = inFlight \ {"runs"}
  /\ \E t \in ClockPoints :
       /\ t >= now
       /\ now' = t
  /\ \/ /\ \E e \in FetchErrors : runsErr' = e
        /\ pc' = "sleep"
        /\ UNCHANGED <<runs, scanIdx>>
     \/ /\ \E rs \in SeqsUpTo([ID : RunIDs, HeadSHA : SHAs, HeadBranch : Branches], MaxRuns) :
             runs' = rs
        /\ runsErr' = "nil"
        /\ scanIdx' = 1
        /\ pc' = "scan"
  /\ UNCHANGED <<callFrame, publishReturn, phase, elapsed, currentRun, statusChanged, baseline, loopExit>>

\* the scan finds no further run on the branch
ScanNotFound ==
  /\ pc = "scan"
  /\ NextMatch(variant, runs, scanIdx) = 0
  /\ pc' = "sleep"
  /\ UNCHANGED <<callFrame, publishReturn, inFlight, phase, now, elapsed, runs, scanIdx, currentRun,
                 statusChanged, runsErr, baseline, loopExit>>

\* gm.getSpecificWorkflowRun(run.ID) is entered for the next run on the branch
GetSpecificWorkflowRunCall ==
  /\ pc = "scan"
  /\ NextMatch(variant, runs, scanIdx) # 0
  /\ scanIdx' = NextMatch(variant, runs, scanIdx)
  /\ inFlight' = inFlight \cup {"detail"}
  /\ pc' = "detailCall"
  /\ UNCHANGED <<callFrame, publishReturn, phase, now, elapsed, runs, currentRun, statusChanged, runsErr,
                 baseline, loopExit>>

\* getSpecificWorkflowRun returns: the record and the change decision, or
\* an error and the scan goes on
GetSpecificWorkflowRunReturn ==
  /\ pc = "detailCall"
  /\ inFlight' = inFlight \ {"detail"}
  /\ \/ /\ \E st \in Statuses, co \in Conclusions :
             currentRun' = [ID |-> runs[scanIdx].ID, Status |-> st, Conclusion |-> co,
                            HeadSHA |-> runs[scanIdx].HeadSHA,
                            HeadBranch |-> runs[scanIdx].HeadBranch,
                            HTMLURL |-> URLOf(runs[scanIdx].ID)]
        /\ statusChanged' = StatusChanged(currentRun', lastStatus, lastConclusion, lastRunID)
        /\ runs' = << >>
        /\ scanIdx' = 0
        /\ pc' = IF statusChanged' THEN "tally" ELSE "completion"
     \/ /\ scanIdx' = scanIdx + 1
        /\ pc' = "scan"
        /\ UNCHANGED <<runs, currentRun, statusChanged>>
  /\ UNCHANGED <<callFrame, publishReturn, phase, now, elapsed, runsErr, baseline, loopExit>>

\* logDetailedStatus: gm.getWorkflowJobs(run.ID) is entered
LogDetailedStatusCall ==
  /\ pc = "tally"
  /\ inFlight' = inFlight \cup {"jobs"}
  /\ pc' = "tallyCall"
  /\ UNCHANGED <<callFrame, publishReturn, phase, now, elapsed, runs, scanIdx, currentRun, statusChanged,
                 runsErr, baseline, loopExit>>

\* getWorkflowJobs returns, with the jobs or with an error that is only logged
LogDetailedStatusReturn ==
  /\ pc = "tallyCall"
  /\ inFlight' = inFlight \ {"jobs"}
  /\ pc' = "publish"
  /\ UNCHANGED <<callFrame, publishReturn, phase, now, elapsed, runs, scanIdx, currentRun, statusChanged,
                 runsErr, baseline, loopExit>>

\* variant of UpdateGitLabStatusCall that does not wait for the call to return
UpdateGitLabStatusCall_Async ==
  /\ pc = "publish"
  /\ inFlight' = inFlight \cup {"publish"}
  /\ lastPublished' = <<currentRun.ID, currentRun.Status, currentRun.Conclusion>>
  /\ lastStatus' = currentRun.Status
  /\ lastConclusion' = currentRun.Conclusion
  /\ lastRunID' = currentRun.ID
  /\ pc' = "completion"
  /\ UNCHANGED <<callRest, publishReturn, phase, now, elapsed, runs, scanIdx, currentRun, statusChanged,
                 runsErr, loopExit>>

\* gm.updateGitLabStatus(...) is entered
UpdateGitLabStatusCall ==
  /\ pc = "publish"
  /\ inFlight' = inFlight \cup {"publish"}
  /\ lastPublished' = <<currentRun.ID, currentRun.Status, currentRun.Conclusion>>
  /\ pc' = "publishCall"
  /\ UNCHANGED <<callRest, publishReturn, phase, now, elapsed, runs, scanIdx, currentRun, statusChanged,
                 runsErr, baseline, loopExit>>

\* variant of UpdateGitLabStatusReturn that keeps the old baseline when the call failed
UpdateGitLabStatusReturn_KeepsOnError ==
  /\ pc = "publishCall"
  /\ inFlight' = inFlight \ {"publish"}
  /\ \E err \in {"nil", "error"} :
       /\ publishReturn' = err
       /\ IF err = "error"
            THEN UNCHANGED baseline
            ELSE /\ lastStatus' = currentRun.Status
                 /\ lastConclusion' = currentRun.Conclusion
                 /\ lastRunID' = currentRun.ID
  /\ pc' = "completion"
  /\ UNCHANGED <<callFrame, phase, now, elapsed, runs, scanIdx, currentRun, statusChanged,
                 runsErr, loopExit>>

\* updateGitLabStatus returns, with or without an error; the baseline is committed
UpdateGitLabStatusReturn ==
  /\ pc = "publishCall"
  /\ inFlight' = inFlight \ {"publish"}
  /\ \E err \in {"nil", "error"} : publishReturn' = err
  /\ lastStatus' = currentRun.Status
  /\ lastConclusion' = currentRun.Conclusion
  /\ lastRunID' = currentRun.ID
  /\ pc' = "completion"
  /\ UNCHANGED <<callFrame, phase, now, elapsed, runs, scanIdx, currentRun, statusChanged,
                 runsErr, loopExit>>

\* the completion block and the timeout check
HandleCompletion ==
  /\ pc = "completion"
  /\ IF currentRun.Status = "completed"
       THEN IF currentRun.Conclusion = "failure"
              THEN /\ pc' = "analyze"
                   /\ UNCHANGED loopExit
              ELSE /\ pc' = "return"
                   /\ loopExit' = "Terminal"
       ELSE IF TimeoutExceeded(elapsed)
              THEN /\ pc' = "return"
                   /\ loopExit' = "TimedOut"
              ELSE /\ pc' = "sleep"
                   /\ UNCHANGED loopExit
  /\ UNCHANGED <<callFrame, publishReturn, inFlight, phase, now, elapsed, runs, scanIdx, currentRun,
                 statusChanged, runsErr, baseline>>

\* analyzeFailure: gm.getWorkflowJobs(run.ID) is entered
AnalyzeFailureCall ==
  /\ pc = "analyze"
  /\ inFlight' = inFlight \cup {"jobs"}
  /\ pc' = "jobsCall"
  /\ UNCHANGED <<callFrame, publishReturn, phase, now, elapsed, runs, scanIdx, currentRun, statusChanged,
                 runsErr, baseline, loopExit>>

\* getWorkflowJobs returns, the analysis is logged, break
AnalyzeFailureReturn ==
  /\ pc = "jobsCall"
  /\ inFlight' = inFlight \ {"jobs"}
  /\ loopExit' = "Terminal"
  /\ pc' = "return"
  /\ UNCHANGED <<callFrame, publishReturn, phase, now, elapsed, runs, scanIdx, currentRun, statusChanged,
                 runsErr, baseline>>

\* time.Sleep(gm.PollInterval), then the next iteration
TimeSleep ==
  /\ pc = "sleep"
  /\ \E t \in ClockPoints :
       /\ t >= now
       /\ now' = t
  /\ runs' = << >>
  /\ scanIdx' = 0
  /\ currentRun' = NoRun
  /\ statusChanged' = FALSE
  /\ runsErr' = "nil"
  /\ pc' = "tick"
  /\ UNCHANGED <<callFrame, publishReturn, inFlight, phase, elapsed, baseline, loopExit>>

NextCalls ==
  \/ EnterLoop
  \/ GetWorkflowRunsCall
  \/ GetWorkflowRunsReturn
  \/ ScanNotFound
  \/ GetSpecificWorkflowRunCall
  \/ GetSpecificWorkflowRunReturn
  \/ LogDetailedStatusCall
  \/ LogDetailedStatusReturn
  \/ UpdateGitLabStatusCall
  \/ UpdateGitLabStatusReturn
  \/ HandleCompletion
  \/ AnalyzeFailureCall
  \/ AnalyzeFailureReturn
  \/ TimeSleep

SpecCalls == InitCalls /\ [][NextCalls]_vars

\* ---- the branch variant's loop as a process that keeps running ----

\* the branch variant with a complete configuration
InitLive ==
  /\ LoopIdle
  /\ ConfigIdle
  /\ ServerIdle
  /\ CallsIdle

\* the longest run list the source answers with in this specification
MaxListed == 1

\* getWorkflowRuns answers 200 with a list of at most MaxListed runs
FetchRunsShortOk ==
  /\ FetchRunsOk
  /\ Len(runs') <= MaxListed

NextLive ==
  \/ Validate
  \/ FetchRunsShortOk
  \/ FetchRunsErr
  \/ DetailFetchOk
  \/ DetailFetchErr
  \/ NotFound
  \/ Compare
  \/ LogDetailedStatus
  \/ Publish
  \/ Completion
  \/ AnalyzeFailure
  \/ Sleep
  \/ ReturnNil
  \/ Main

\* the process is never suspended: local steps are taken, every HTTP call
\* returns (the client has a 30 second timeout) and every sleep ends
SpecLive == InitLive /\ [][NextLive]_vars /\ WF_vars(NextLive)

\* ---- getStatusSymbol ----

\* the status and conclusion texts of the source API
SymbolStatuses == Statuses \cup {"requested", "pending"}
SymbolConclusions == Conclusions \cup {"skipped", "neutral", "action_required"}

\* variant of getStatusSymbol whose inner default is the failure symbol
getStatusSymbol_DefaultFailure(status, conclusion) ==
  CASE status = "queued" -> "hourglass"
    [] status = "in_progress" -> "arrows"
    [] status = "completed" ->
         (CASE conclusion = "success" -> "check"
            [] conclusion = "failure" -> "cross"
            [] conclusion = "cancelled" -> "warning"
            [] OTHER -> "cross")
    [] OTHER -> "question"

\* the emoji are named: hourglass, arrows, check mark, cross mark, warning
\* sign and question mark
getStatusSymbol(status, conclusion) ==
  CASE status = "queued" -> "hourglass"
    [] status = "in_progress" -> "arrows"
    [] status = "completed" ->
         (CASE conclusion = "success" -> "check"
            [] conclusion = "failure" -> "cross"
            [] conclusion = "cancelled" -> "warning"
            [] OTHER -> "question")
    [] OTHER -> "question"

InitSymbol ==
  /\ LoopIdle
  /\ ConfigIdle
  /\ ServerIdle
  /\ inFlight = {}
  /\ publishReturn = "none"
  /\ symbolCall \in [status : SymbolStatuses, conclusion : SymbolConclusions, symbol : {""}]

GetStatusSymbol ==
  /\ symbolCall.symbol = ""
  /\ symbolCall' = [symbolCall EXCEPT
                      !.symbol = getStatusSymbol(symbolCall.status, symbolCall.conclusion)]
  /\ UNCHANGED <<loopVars, analysisVars, pc, configVars, serverVars, inFlight, publishReturn>>

NextSymbol == GetStatusSymbol

SpecSymbol == InitSymbol /\ [][NextSymbol]_vars

\* ---- properties ----

\* the located run's triple differs from the stored baseline
TripleDiffers ==
  \/ currentRun.ID # lastRunID
  \/ currentRun.Status # lastStatus
  \/ currentRun.Conclusion # lastConclusion

FailedRun == currentRun.Status = "completed" /\ currentRun.Conclusion = "failure"

\* C1: every published state is the mapping table's value for the located
\* run's (status, conclusion) pair, and is one of the five target states
C1_MapFollowsTable ==
  published # NoPublish =>
    /\ published.state \in GitLabStates
    /\ currentRun.Status = "queued" => published.state = "pending"
    /\ currentRun.Status = "in_progress" => published.state = "running"
    /\ currentRun.Status = "completed" =>
         /\ currentRun.Conclusion = "success" => published.state = "success"
         /\ currentRun.Conclusion = "failure" => published.state = "failed"
         /\ currentRun.Conclusion = "cancelled" => published.state = "canceled"
         /\ currentRun.Conclusion \notin {"success", "failure", "cancelled"}
              => published.state = "failed"
    /\ currentRun.Status \notin {"queued", "in_progress", "completed"}
         => published.state = "pending"

C1_Witness ==
  /\ published # NoPublish
  /\ currentRun.Status = "completed"
  /\ currentRun.Conclusion = "cancelled"
  /\ published.state = "canceled"

\* C2: a change is declared exactly when id, status or conclusion differs from
\* the baseline; the publisher is called and the baseline is written only in
\* a tick whose located triple differs from the baseline
C2_ChangeIsThreeWayOr ==
  /\ []((pc \in {"tally", "publish"} \/ (pc = "completion" /\ published = NoPublish))
          => (statusChanged <=> TripleDiffers))
  /\ [][((published' # published /\ published' # NoPublish) \/ baseline' # baseline)
          => (pc = "publish" /\ TripleDiffers)]_vars

\* tick 2 with data identical to the published baseline: nothing is published
C2_Witness ==
  /\ pc = "completion"
  /\ everPublished
  /\ currentRun.Status = "in_progress"
  /\ lastStatus = "in_progress"
  /\ ~TripleDiffers
  /\ ~statusChanged
  /\ published = NoPublish

\* C3: as long as no baseline was committed, a located run counts as changed
C3_FirstObservationChanged ==
  (pc \in {"tally", "publish", "completion"} /\ ~everPublished) => statusChanged

\* C4: a run seen in_progress and then completed/failure is detected as a
\* change, published as failed, analysed once, and ends the loop in that tick
C4_ScenarioB ==
  /\ [][(pc = "located" /\ FailedRun /\ lastStatus = "in_progress"
           /\ lastRunID = currentRun.ID)
          => (statusChanged' /\ pc' = "tally")]_vars
  /\ []((FailedRun /\ statusChanged /\ pc \in {"completion", "analyze", "return"})
          => published.state = "failed")
  /\ [][(pc = "completion" /\ FailedRun)
          => (pc' = "analyze" /\ analyzeCalls' = 0)]_vars
  /\ [][pc = "analyze"
          => (analyzeCalls' = 1 /\ loopExit' = "Terminal" /\ pc' = "return")]_vars
  /\ [][(pc \in {"return", "returned", "exited"})
          => (pc' \in {"returned", "exited"} /\ published' = published
                /\ analyzeCalls' = analyzeCalls /\ now' = now)]_vars

C4_Witness ==
  /\ pc = "exited"
  /\ FailedRun
  /\ statusChanged
  /\ lastStatus = "completed"
  /\ published.state = "failed"
  /\ analyzeCalls = 1
  /\ loopExit = "Terminal"

\* C5: in the branch variant, when no listed run ever matched the selector,
\* a tick that began past the ceiling does not go back to sleep (the loop has
\* exited TimedOut), and the publisher was never called
C5_NeverMatchedTimesOut ==
  /\ ~(variant = "branch" /\ ~everMatched /\ pc = "sleep" /\ runsErr = "nil"
         /\ elapsed > Ceiling)
  /\ ~everMatched => ~everPublished

\* C6: in the branch variant no tick that began past the ceiling ends with a
\* sleep, whatever its outcome
C6_CeilingCheckedEveryTick ==
  ~(variant = "branch" /\ pc = "sleep" /\ elapsed > Ceiling)

\* C7: branch variant, run located and not completed: past the ceiling (as
\* measured at the start of the tick) the loop exits TimedOut and returns nil,
\* otherwise it sleeps and starts another tick
C7_TimedOutWithoutError ==
  /\ [][(variant = "branch" /\ pc = "tick") => elapsed' = now - monitoringStart]_vars
  /\ [][(variant = "branch" /\ pc = "completion" /\ currentRun.Status # "completed")
          => IF elapsed > Ceiling
               THEN pc' = "return" /\ loopExit' = "TimedOut"
               ELSE pc' = "sleep" /\ loopExit' = "none"]_vars
  /\ [][pc = "sleep" => pc' = "tick"]_vars
  /\ []((loopExit = "TimedOut" /\ pc \in {"returned", "exited"}) => retErr = "nil")

C7_Witness ==
  /\ variant = "branch"
  /\ loopExit = "TimedOut"
  /\ pc = "returned"
  /\ retErr = "nil"
  /\ currentRun.Status = "in_progress"
  /\ elapsed = Ceiling + 1

\* C8: a located run with status completed ends the loop in Terminal, and
\* Terminal returns nil and exits 0 whatever the conclusion
C8_TerminalExitsZero ==
  /\ (pc \in {"return", "returned", "exited"} /\ currentRun.Status = "completed")
       => loopExit = "Terminal"
  /\ (loopExit = "Terminal" /\ pc \in {"returned", "exited"}) => retErr = "nil"
  /\ (loopExit = "Terminal" /\ pc = "exited") => exitCode = 0

C8_Witness ==
  /\ pc = "exited"
  /\ loopExit = "Terminal"
  /\ currentRun.Conclusion = "failure"
  /\ exitCode = 0

\* C9: an error return (non-zero exit) is a configuration error or a timeout
\* before any run was located; after a run was located nothing returns an error
C9_ErrorOnlyConfigOrUnlocatedTimeout ==
  /\ (pc \in {"returned", "exited"} /\ retErr # "nil")
       => \/ (retErr = "configuration error" /\ validateConfig(config) # "nil")
          \/ (~everLocated /\ now - monitoringStart > SearchCeiling)
  /\ exitCode = 1 => retErr # "nil"
  /\ everLocated => (retErr \in {"none", "nil"} /\ exitCode \in {-1, 0})

\* after a run was located, a failed run-list fetch only leads to the sleep
C9_Witness ==
  /\ everLocated
  /\ everPublished
  /\ runsErr = "decode"
  /\ pc = "sleep"
  /\ now > SearchCeiling
  /\ retErr = "none"

\* C10 as claimed: an exit by timeout never has the return value and exit
\* code of an exit by completion (nil, 0)
C10_TimeoutDistinguishable ==
  (pc = "exited" /\ loopExit = "TimedOut") => ~(retErr = "nil" /\ exitCode = 0)

\* C10 amended: in the branch variant the 45 minute timeout exit returns nil
\* and exits 0, the very outcome of a completion exit; only the exit path
\* (the run is not completed, the timeout branch was taken) tells them apart
C10_TimeoutSameOutcome ==
  (pc = "exited" /\ loopExit # "Terminal" /\ validateConfig(config) = "nil"
     /\ variant = "branch")
    => (loopExit = "TimedOut" /\ retErr = "nil" /\ exitCode = 0
        /\ currentRun.Status # "completed" /\ elapsed > Ceiling)

C10_Witness ==
  /\ pc = "exited"
  /\ variant = "branch"
  /\ loopExit = "TimedOut"
  /\ exitCode = 0
  /\ currentRun.Status = "queued"

\* the target API call of this tick failed in transport or answered non-2xx
PublishFailed == publishOutcome \in {"non_2xx", "transport"}

\* C11: a publish whose HTTP exchange fails in transport or answers non-2xx
\* returns an error to the caller (which then takes the warning branch)
C11_PublishFailureIsError ==
  (published # NoPublish /\ PublishFailed) => publishErr

\* C12: a failed publish still commits the observed triple as the baseline,
\* the completion handling of the tick still runs (Terminal for a completed
\* run), and otherwise the loop goes on to the sleep and the next tick
C12_PublishErrorRecovered ==
  /\ [][pc = "publish"
          => (lastRunID' = currentRun.ID /\ lastStatus' = currentRun.Status
                /\ lastConclusion' = currentRun.Conclusion /\ pc' = "completion")]_vars
  /\ [](PublishFailed
          => (lastRunID = currentRun.ID /\ lastStatus = currentRun.Status
                /\ lastConclusion = currentRun.Conclusion))
  /\ [][(pc = "completion" /\ PublishFailed)
          => IF currentRun.Status = "completed"
               THEN \/ (pc' = "analyze" /\ currentRun.Conclusion = "failure")
                    \/ (pc' = "return" /\ loopExit' = "Terminal")
               ELSE \/ pc' = "sleep"
                    \/ (pc' = "return" /\ loopExit' = "TimedOut"
                          /\ variant = "branch" /\ elapsed > Ceiling)]_vars
  /\ []((PublishFailed /\ currentRun.Status = "completed"
           /\ pc \in {"return", "returned", "exited"}) => loopExit = "Terminal")

C12_Witness ==
  /\ publishOutcome = "transport"
  /\ publishErr
  /\ pc = "exited"
  /\ loopExit = "Terminal"
  /\ lastStatus = "completed"
  /\ lastRunID = currentRun.ID
  /\ lastConclusion = currentRun.Conclusion

\* the selector field of a list entry equals the configured selector
SelMatch(r) ==
  IF variant = "branch" THEN r.HeadBranch = BranchName ELSE r.HeadSHA = CommitSHA

\* the record d is the detail record of list entry r
DetailOf(d, r) ==
  d.ID = r.ID /\ d.HeadSHA = r.HeadSHA /\ d.HeadBranch = r.HeadBranch

\* a step of the candidate scan that reports a run
LocateStep == pc = "scan" /\ (pc' = "located" \/ phase' # phase)

\* a step that ends the candidate scan without a run
NotFoundStep == pc = "scan" /\ pc' \in {"sleep", "returned"}

MatchesBefore(i) == {j \in 1..(i - 1) : SelMatch(runs[j])}

\* C13 as claimed: the run reported is the detail record of the first entry
\* of the list, in list order, whose selector field matches
C13_LocatesFirstMatch ==
  [][LocateStep
       => \E i \in 1..Len(runs) :
            /\ SelMatch(runs[i])
            /\ MatchesBefore(i) = {}
            /\ DetailOf(currentRun', runs[i])]_vars

\* C13 amended: the run reported is the detail record of the first matching
\* entry not yet passed over, every entry passed over either does not match
\* or had its re-fetch fail, and a list without a matching entry gives NotFound
C13_LocatesFirstFetchedMatch ==
  /\ [][(pc = "tick" /\ pc' = "scan") => scanIdx' = 1]_vars
  /\ [][LocateStep
          => \E i \in scanIdx..Len(runs) :
               /\ SelMatch(runs[i])
               /\ \A j \in scanIdx..(i - 1) : ~SelMatch(runs[j])
               /\ DetailOf(currentRun', runs[i])
               /\ detailErrs = Cardinality(MatchesBefore(i))]_vars
  /\ [][(pc = "scan" /\ MatchesBefore(Len(runs) + 1) = {})
          => (NotFoundStep /\ currentRun' = currentRun
                /\ everLocated' = everLocated)]_vars

C13_Witness ==
  /\ pc = "located"
  /\ variant = "branch"
  /\ detailErrs = 0
  /\ currentRun.HeadBranch = BranchName
  /\ currentRun.Status = "in_progress"
  /\ currentRun.ID = 1

\* C14 as claimed: once a detail re-fetch has failed in a tick, no run is
\* reported in that tick
C14_FailedRefetchEndsScan ==
  detailErrs > 0
    => pc \notin {"located", "tally", "publish", "completion", "analyze", "return"}

\* C14 amended: a failed re-fetch leaves the scan running on the later
\* candidates, and the scan ends without a run only after the re-fetch of
\* every matching entry of the list has failed
C14_ScanContinuesAfterFailedRefetch ==
  /\ [][(pc = "scan" /\ detailErrs' # detailErrs)
          => (/\ detailErrs' = detailErrs + 1
              /\ pc' = "scan"
              /\ runs' = runs
              /\ currentRun' = currentRun
              /\ scanIdx' > scanIdx
              /\ scanIdx' <= Len(runs) + 1
              /\ SelMatch(runs[scanIdx' - 1]))]_vars
  /\ [][NotFoundStep
          => detailErrs = Cardinality(MatchesBefore(Len(runs) + 1))]_vars

\* a run is reported in a tick whose first matching candidate failed to re-fetch
C14_Witness ==
  /\ pc = "located"
  /\ detailErrs = 1
  /\ currentRun # NoRun

\* what a no-op tick leaves alone: tracked state, publisher, analyzer, result
NoOpFrame ==
  /\ baseline' = baseline
  /\ published' = published
  /\ publishOutcome' = publishOutcome
  /\ everPublished' = everPublished
  /\ analyzeCalls' = analyzeCalls
  /\ analyzeJobsErr' = analyzeJobsErr
  /\ retErr' = retErr
  /\ loopExit' = loopExit

\* C15: in the monitoring loop a tick that ends in a run-list fetch error of
\* any kind, or without a located run, publishes nothing, analyses nothing,
\* leaves the tracked state alone and goes to the sleep and the next tick
C15_FailedTickIsNoOp ==
  /\ []((pc \in {"tick", "scan"}) => (published = NoPublish /\ publishOutcome = "none"))
  /\ [][(pc = "tick" /\ phase = "monitor" /\ runsErr' # "nil")
          => (pc' = "sleep" /\ runsErr' \in FetchErrors /\ NoOpFrame)]_vars
  /\ [][(NotFoundStep /\ phase = "monitor") => (pc' = "sleep" /\ NoOpFrame)]_vars
  /\ [][pc = "sleep" => (pc' = "tick" /\ baseline' = baseline /\ published' = NoPublish /\
                           analyzeCalls' = analyzeCalls /\ retErr' = retErr)]_vars

C15_Witness ==
  /\ pc = "sleep"
  /\ variant = "branch"
  /\ runsErr = "decode"
  /\ everPublished
  /\ lastStatus = "in_progress"
  /\ lastRunID = 1
  /\ published = NoPublish
  /\ analyzeCalls = 0

AnyEmpty == \E f \in DOMAIN config : config[f] = ""

\* C16: with any of the five required settings empty the program returns a
\* configuration error before the loop, with no fetch and no publish, and
\* exits with a non-zero code; with all five set validation succeeds and the
\* loop is entered
C16_EmptySettingIsConfigError ==
  /\ []((AnyEmpty /\ pc # "validate")
          => (/\ pc \in {"returned", "exited"}
              /\ retErr = "configuration error"
              /\ phase = "init"
              /\ runs = << >> /\ runsErr = "nil" /\ now = 0
              /\ ~everMatched /\ ~everLocated
              /\ ~everPublished /\ published = NoPublish
              /\ analyzeCalls = 0
              /\ (pc = "exited" => exitCode # 0)))
  /\ [][(pc = "validate" /\ ~AnyEmpty)
          => (pc' = "tick" /\ phase' \in {"search", "monitor"} /\ retErr' = retErr)]_vars
  /\ [](~AnyEmpty => retErr # "configuration error")

C16_Witness ==
  /\ pc = "exited"
  /\ config.Selector = ""
  /\ config.GitHubToken # "" /\ config.GitHubRepo # ""
  /\ config.GitLabToken # "" /\ config.GitLabProjectID # ""
  /\ retErr = "configuration error"
  /\ exitCode = 1

\* C17: a failed jobs fetch inside the Failure Analyzer does not abort:
\* the loop exits Terminal in the same tick and startMonitoring returns nil
C17_AnalyzerFetchFailureIsSwallowed ==
  /\ [][pc = "analyze"
          => (pc' = "return" /\ loopExit' = "Terminal" /\ retErr' = retErr /\
              now' = now /\ analyzeJobsErr' \in {"nil", "error"})]_vars
  /\ [](analyzeJobsErr = "error"
          => (/\ pc \in {"return", "returned", "exited"}
              /\ loopExit = "Terminal"
              /\ FailedRun
              /\ (pc \in {"returned", "exited"} => retErr = "nil")
              /\ (pc = "exited" => exitCode = 0)))

C17_Witness ==
  /\ analyzeJobsErr = "error"
  /\ pc = "exited"
  /\ loopExit = "Terminal"
  /\ retErr = "nil"
  /\ exitCode = 0
  /\ currentRun.Conclusion = "failure"

\* the (job, step) positions of the failed steps of the failed jobs
FailedSteps ==
  {jk \in (DOMAIN jobsResp) \X (1..MaxSteps) :
     /\ jobsResp[jk[1]].Conclusion = "failure"
     /\ jk[2] \in DOMAIN jobsResp[jk[1]].Steps
     /\ jobsResp[jk[1]].Steps[jk[2]].Conclusion = "failure"}

PointIsOf(pt, jk) ==
  /\ pt.job = jk[1]
  /\ pt.number = jobsResp[jk[1]].Steps[jk[2]].Number

Analyzed == pc = "analyzed" /\ analyzeJobsErr = "nil"

NearestSecond(d) ==
  CHOOSE x \in 0..(d + Second) :
    /\ x % Second = 0
    /\ 2 * (IF x > d THEN x - d ELSE d - x) <= Second
    /\ (2 * (IF x > d THEN x - d ELSE d - x) = Second => x > d)

\* C19: a failure point carries completedAt - startedAt rounded to whole
\* seconds when the step has both stamps (7 seconds for T and T+7s), and
\* no duration when either stamp is absent
C19_DurationRoundedOrOmitted ==
  Analyzed =>
    \A n \in DOMAIN report : \A jk \in FailedSteps :
      PointIsOf(report[n], jk) =>
        LET step == jobsResp[jk[1]].Steps[jk[2]]
        IN  /\ (step.StartedAt # NoStamp /\ step.CompletedAt # NoStamp)
                 => report[n].duration = NearestSecond(step.CompletedAt - step.StartedAt)
            /\ (step.StartedAt = NoStamp \/ step.CompletedAt = NoStamp)
                 => report[n].duration = NoDuration
            /\ (step.StartedAt # NoStamp /\ step.CompletedAt = step.StartedAt + 7 * Second)
                 => report[n].duration = 7 * Second

C19_Witness ==
  /\ Analyzed
  /\ Len(report) = 2
  /\ Len(jobsResp) = 1
  /\ jobsResp[1].Steps[1].StartedAt = 2 /\ jobsResp[1].Steps[1].CompletedAt = 16
  /\ report[1].duration = 7 * Second
  /\ jobsResp[1].Steps[2].StartedAt = 0 /\ jobsResp[1].Steps[2].CompletedAt = NoStamp
  /\ report[2].duration = NoDuration

\* position of a source status in queued -> in_progress -> completed
SourceRank(status) ==
  CASE status = "queued" -> 1
    [] status = "in_progress" -> 2
    [] status = "completed" -> 3
    [] OTHER -> 0

\* position of a target state in pending -> running -> terminal
TargetRank(state) ==
  CASE state = "pending" -> 1
    [] state = "running" -> 2
    [] state \in {"success", "failed", "canceled"} -> 3
    [] OTHER -> 0

\* C20: publications follow the source's order.  A publication carries the
\* target state of the observation just made, which becomes the baseline;
\* when the next publication is of the same run and the source has not gone
\* back, its target state is not an earlier one (no pending after running);
\* and after a completed observation nothing is published any more
C20_PublishedInSourceOrder ==
  /\ []((published # NoPublish /\ SourceRank(currentRun.Status) >= 1)
          => (/\ TargetRank(published.state) = SourceRank(currentRun.Status)
              /\ published.runID = currentRun.ID
              /\ lastRunID = currentRun.ID
              /\ lastStatus = currentRun.Status))
  /\ [][(/\ pc = "publish"
         /\ everPublished
         /\ lastRunID = currentRun.ID
         /\ SourceRank(lastStatus) >= 1
         /\ SourceRank(currentRun.Status) >= SourceRank(lastStatus))
          => (/\ pc' = "completion"
              /\ published'.runID = lastRunID
              /\ TargetRank(published'.state) >= SourceRank(lastStatus))]_vars
  /\ []((pc \in {"tick", "scan", "located", "tally", "publish", "sleep"})
          => lastStatus # "completed")
  /\ []((published # NoPublish /\ TargetRank(published.state) = 3 /\
         currentRun.Status = "completed")
          => pc \in {"completion", "analyze", "return", "returned", "exited"})

C20_Witness ==
  /\ pc = "publish"
  /\ everPublished
  /\ lastRunID = currentRun.ID
  /\ lastStatus = "queued"
  /\ currentRun.ID = 1
  /\ currentRun.Status = "in_progress"

\* the arguments of the publish call for the run located in this tick
PublishArgsOf(run) ==
  /\ published'.state = mapToGitLabState(run.Status, run.Conclusion)
  /\ published'.commitSHA = (IF variant = "branch" THEN run.HeadSHA ELSE CommitSHA)
  /\ published'.targetURL = run.HTMLURL
  /\ published'.runID = run.ID

\* C22: every publish call carries the mapped state and the detail URL of the
\* run located in the same tick, keyed by that record's head SHA in the
\* branch variant and by the configured commit SHA in the commit variant
C22_PublishCarriesObservedRun ==
  /\ [][pc = "publish" => (PublishArgsOf(currentRun) /\ currentRun' = currentRun)]_vars
  /\ [][(published' # published /\ published' # NoPublish) => pc = "publish"]_vars
  /\ [][pc' = "located" => (pc = "scan" /\ currentRun'.HTMLURL = URLOf(currentRun'.ID))]_vars
  /\ []((pc \in {"located", "tally", "publish"})
          => (currentRun # NoRun /\ runsErr = "nil" /\ published = NoPublish))
  /\ [][(pc \in {"located", "tally"}) => (currentRun' = currentRun /\ published' = NoPublish)]_vars

C22_Witness ==
  /\ pc = "completion"
  /\ variant = "branch"
  /\ currentRun.HeadSHA = "def"
  /\ currentRun.ID = 1
  /\ currentRun.Status = "in_progress"
  /\ published.state = "running"
  /\ published.commitSHA = "def"
  /\ published.targetURL = URLOf(1)

Constructed == monitor # NoMonitor

\* C23: the poll interval is 10 seconds when POLL_INTERVAL is unset, empty
\* or does not parse as a duration, and the parsed value whenever it parses;
\* the environment label is "unknown" when ENVIRONMENT is unset or empty,
\* and the configured value otherwise
C23_OptionalSettingsDefault ==
  Constructed =>
    /\ (environ["POLL_INTERVAL"] \in {Unset, "", "abc", "10"}) => monitor.PollInterval = 10
    /\ environ["POLL_INTERVAL"] = "30s" => monitor.PollInterval = 30
    /\ environ["POLL_INTERVAL"] = "1m" => monitor.PollInterval = 60
    /\ environ["POLL_INTERVAL"] = "0s" => monitor.PollInterval = 0
    /\ (environ["ENVIRONMENT"] \in {Unset, ""}) => monitor.Environment = "unknown"
    /\ (environ["ENVIRONMENT"] \notin {Unset, ""}) => monitor.Environment = environ["ENVIRONMENT"]

C23_Witness ==
  /\ Constructed
  /\ environ["POLL_INTERVAL"] = "abc"
  /\ monitor.PollInterval = 10
  /\ environ["ENVIRONMENT"] = Unset
  /\ monitor.Environment = "unknown"

\* a GET /health request has been answered
HealthAnswered ==
  /\ srv = "listening"
  /\ request = [method |-> "GET", path |-> "/health"]
  /\ response # NoResponse

C25_AnalyzerOnlyForFailedRunOnce ==
  /\ [](analyzeCalls <= 1)
  /\ [][analyzeCalls' # analyzeCalls
          => (/\ pc = "analyze"
              /\ analyzeCalls = 0 /\ analyzeCalls' = 1
              /\ currentRun.Status = "completed"
              /\ currentRun.Conclusion = "failure"
              /\ currentRun' = currentRun)]_vars
  /\ []((pc = "analyze" \/ analyzeCalls > 0 \/ analyzeJobsErr # "none")
          => (/\ currentRun.Status = "completed"
              /\ currentRun.Conclusion = "failure"
              /\ pc \in {"analyze", "return", "returned", "exited"}))
  /\ []((currentRun.Status # "completed" \/ currentRun.Conclusion # "failure")
          => (analyzeCalls = 0 /\ pc # "analyze"))

C25_Witness ==
  /\ pc = "returned"
  /\ analyzeCalls = 1
  /\ currentRun.Status = "completed"
  /\ currentRun.Conclusion = "failure"
  /\ variant = "commit"

\* the step changes the position in the tick
Moves == pc' # pc

\* C26: the steps of a tick come in the order run-list fetch, run location,
\* change decision and, on a change, job tally, publish call with the
\* baseline commit; failure analysis comes only after the publish call and
\* the baseline commit of its tick, and the loop exit follows it
C26_TickStepsInOrder ==
  /\ [][(Moves /\ pc' = "scan") => pc = "tick"]_vars
  /\ [][(Moves /\ pc' = "located") => (pc = "scan" /\ runsErr = "nil")]_vars
  /\ [][(Moves /\ pc' = "tally") => (pc = "located" /\ published = NoPublish)]_vars
  /\ [][(Moves /\ pc' = "publish")
          => (pc = "tally" /\ statusChanged /\ published = NoPublish /\ baseline' = baseline)]_vars
  /\ [][pc = "publish"
          => (/\ pc' = "completion"
              /\ published' # NoPublish
              /\ lastRunID' = currentRun.ID
              /\ lastStatus' = currentRun.Status
              /\ lastConclusion' = currentRun.Conclusion)]_vars
  /\ [][(Moves /\ pc' = "completion")
          => (\/ pc = "publish"
              \/ (pc \in {"located", "tally"} /\ ~statusChanged'))]_vars
  /\ [][(Moves /\ pc' = "analyze") => pc = "completion"]_vars
  /\ [](pc = "analyze"
          => (/\ statusChanged
              /\ published # NoPublish
              /\ published.runID = currentRun.ID
              /\ lastRunID = currentRun.ID
              /\ lastStatus = currentRun.Status
              /\ lastConclusion = currentRun.Conclusion))
  /\ [][pc = "analyze" => (pc' = "return" /\ loopExit' = "Terminal" /\
                            published' = published /\ baseline' = baseline)]_vars

C26_Witness ==
  /\ pc = "analyze"
  /\ variant = "branch"
  /\ published.state = "failed"
  /\ lastStatus = "completed"
  /\ lastConclusion = "failure"
  /\ lastRunID = 1
  /\ publishOutcome = "ok_2xx"

\* C27: the tracked state starts empty, changes only in the publish step of
\* a tick that detected a change, where it becomes the triple of the run
\* passed to the publisher, and so is always either still empty or the
\* triple of the most recent publish call
C27_BaselineIsLastPublishedTriple ==
  /\ [](pc = "validate" => baseline = <<0, "", "">>)
  /\ [](IF everPublished THEN baseline = lastPublished
                         ELSE baseline = <<0, "", "">> /\ lastPublished = NoTriple)
  /\ [][baseline' # baseline
          => (/\ pc = "publish"
              /\ statusChanged
              /\ published' # NoPublish
              /\ published'.runID = currentRun.ID
              /\ baseline' = <<currentRun.ID, currentRun.Status, currentRun.Conclusion>>)]_vars
  /\ [][(pc # "publish") => baseline' = baseline]_vars

C27_Witness ==
  /\ pc = "tick"
  /\ everPublished
  /\ runsErr = "nil"
  /\ lastPublished = <<1, "queued", "">>
  /\ lastRunID = 1 /\ lastStatus = "queued" /\ lastConclusion = ""
  /\ now = 45

\* C28: at most one network call is in flight at any time, a call starts
\* only when none is in flight, and the sleep and the next tick start only
\* after every call of the tick has returned
C28_OneCallInFlight ==
  /\ [](inFlight \subseteq CallKinds /\ Cardinality(inFlight) <= 1)
  /\ [][inFlight' # inFlight
          => (\/ inFlight = {} /\ Cardinality(inFlight') = 1
              \/ Cardinality(inFlight) = 1 /\ inFlight' = {})]_vars
  /\ []((pc \in {"tick", "sleep", "return"}) => inFlight = {})
  /\ [][pc = "sleep" => (pc' = "tick" /\ inFlight' = {})]_vars
  /\ [][(pc = "tick" /\ pc' # "tick") => inFlight' = {"runs"}]_vars

C28_Witness ==
  /\ pc = "jobsCall"
  /\ inFlight = {"jobs"}
  /\ lastStatus = "completed"
  /\ lastConclusion = "failure"
  /\ now = 6

SymbolReturned == symbolCall.symbol # ""

\* C29: getStatusSymbol returns a symbol for every input: the queued and
\* running symbols for those statuses, the success, failure and cancelled
\* symbols for completed with those conclusions, and the unknown symbol
\* exactly for every other input
C29_SymbolTotalWithOneDefault ==
  /\ [][symbolCall.symbol = "" => symbolCall'.symbol # ""]_vars
  /\ [](SymbolReturned =>
          LET st == symbolCall.status
              co == symbolCall.conclusion
              sy == symbolCall.symbol
          IN  /\ sy \in {"hourglass", "arrows", "check", "cross", "warning", "question"}
              /\ st = "queued" => sy = "hourglass"
              /\ st = "in_progress" => sy = "arrows"
              /\ (st = "completed" /\ co = "success") => sy = "check"
              /\ (st = "completed" /\ co = "failure") => sy = "cross"
              /\ (st = "completed" /\ co = "cancelled") => sy = "warning"
              /\ sy = "question"
                   <=> ~(\/ st \in {"queued", "in_progress"}
                         \/ (st = "completed" /\ co \in {"success", "failure", "cancelled"})))

C29_Witness ==
  /\ symbolCall.status = "completed"
  /\ symbolCall.conclusion = "timed_out"
  /\ symbolCall.symbol = "question"

\* C30: when the loop has exited in Terminal, the publisher was called in
\* that final tick for the completed run with its terminal target state,
\* whatever the call returned, and the baseline is that run's triple
C30_TerminalExitHasPublished ==
  /\ [](loopExit = "Terminal"
          => (/\ currentRun.Status = "completed"
              /\ publishOutcome \in PublishOutcomes
              /\ published.runID = currentRun.ID
              /\ published.state \in {"success", "failed", "canceled"}
              /\ (currentRun.Conclusion = "success" <=> published.state = "success")
              /\ (currentRun.Conclusion = "cancelled" <=> published.state = "canceled")
              /\ baseline = <<currentRun.ID, "completed", currentRun.Conclusion>>
              /\ lastPublished = baseline))
  /\ [][loopExit' = "Terminal" => (now' = now /\ published' = published /\ published' # NoPublish)]_vars

C30_Witness ==
  /\ pc = "exited"
  /\ loopExit = "Terminal"
  /\ publishOutcome = "transport"
  /\ published.state = "canceled"
  /\ lastConclusion = "cancelled"
  /\ exitCode = 0

\* the (id, status, conclusion) of the run located in this tick
RunTriple == <<currentRun.ID, currentRun.Status, currentRun.Conclusion>>

\* C31: a publisher call that returned an error still leaves its triple as
\* the baseline, and after it the publisher is entered again only in a tick
\* whose located run's triple differs from the triple of the failed call
C31_FailedPublishNotRetried ==
  /\ [][(pc = "publishCall" /\ publishReturn' = "error")
          => (baseline' = lastPublished /\ lastPublished' = lastPublished)]_vars
  /\ [][(publishReturn = "error" /\ publishReturn' = "error" /\ baseline' # baseline)
          => pc = "publishCall"]_vars
  /\ [][(publishReturn = "error" /\ pc # "publishCall" /\ pc' = "publishCall")
          => RunTriple # lastPublished]_vars
  /\ []((publishReturn = "error" /\ currentRun # NoRun /\ RunTriple = lastPublished)
          => pc \notin {"tally", "tallyCall", "publish"})

C31_Witness ==
  /\ publishReturn = "error"
  /\ pc = "sleep"
  /\ ~statusChanged
  /\ currentRun.Status = "in_progress"
  /\ RunTriple = lastPublished
  /\ inFlight = {}
  /\ now = 6

\* C32: the run of a tick is the first matching entry of that tick's list
\* whatever run id the baseline holds; a located run whose id differs from
\* the baseline's is a change by that difference alone, and its mapped state
\* is published under its own head SHA (branch variant) and becomes the
\* baseline, also when that state is an earlier one than the last published
C32_SwitchesToNewFirstMatch ==
  /\ [][(LocateStep /\ detailErrs = 0)
          => \E i \in 1..Len(runs) :
               /\ SelMatch(runs[i])
               /\ MatchesBefore(i) = {}
               /\ DetailOf(currentRun', runs[i])]_vars
  /\ [][(pc = "located" /\ currentRun.ID # lastRunID)
          => (statusChanged' /\ pc' = "tally")]_vars
  /\ [][(pc = "tally" /\ statusChanged) => (pc' = "publish" /\ currentRun' = currentRun)]_vars
  /\ [][pc = "publish"
          => (/\ published'.runID = currentRun.ID
              /\ (variant = "branch" => published'.commitSHA = currentRun.HeadSHA)
              /\ (currentRun.Status = "queued" => published'.state = "pending")
              /\ (currentRun.Status = "in_progress" => published'.state = "running")
              /\ baseline' = RunTriple)]_vars

\* the tick after `running` was published for run 0 has located run 1, still
\* queued, declared the change and is about to publish for it
C32_Witness ==
  /\ variant = "branch"
  /\ pc = "publish"
  /\ statusChanged
  /\ everPublished
  /\ lastPublished = <<0, "in_progress", "">>
  /\ baseline = lastPublished
  /\ currentRun.ID = 1
  /\ currentRun.Status = "queued"
  /\ currentRun.HeadSHA = "def"
  /\ now = 6

\* C33: a tick that located a completed run ends in Terminal (after the
\* analysis for a failure) however much time has elapsed, having published
\* the terminal state; the loop exits TimedOut only from a tick of the branch
\* variant that located a run which is not completed, past the ceiling
C33_TerminalBeforeTimedOut ==
  /\ [][(pc = "completion" /\ currentRun.Status = "completed")
          => (/\ published.runID = currentRun.ID
              /\ published.state \in {"success", "failed", "canceled"}
              /\ \/ (pc' = "analyze" /\ currentRun.Conclusion = "failure" /\ loopExit' = "none")
                 \/ (pc' = "return" /\ loopExit' = "Terminal"))]_vars
  /\ [][pc = "analyze" => (pc' = "return" /\ loopExit' = "Terminal")]_vars
  /\ []((currentRun.Status = "completed" /\ pc \in {"return", "returned", "exited"})
          => loopExit = "Terminal")
  /\ [][(loopExit = "none" /\ loopExit' = "TimedOut")
          => (/\ pc = "completion"
              /\ variant = "branch"
              /\ currentRun # NoRun
              /\ currentRun.Status # "completed"
              /\ elapsed > Ceiling)]_vars

C33_Witness ==
  /\ variant = "branch"
  /\ pc = "exited"
  /\ loopExit = "Terminal"
  /\ elapsed = Ceiling + 1
  /\ currentRun.Status = "completed"
  /\ currentRun.Conclusion = "success"
  /\ published.state = "success"
  /\ exitCode = 0

\* C34: in the branch variant, when nothing has been published yet and the
\* located run is already completed, that tick declares the change,
\* publishes the run's terminal state, analyses a failure once, leaves the
\* loop in Terminal and returns; no fetch, sleep or tick follows
C34_CompletedAtFirstSightExits ==
  /\ [][(variant = "branch" /\ pc = "located" /\ ~everPublished
           /\ currentRun.Status = "completed")
          => (statusChanged' /\ pc' = "tally")]_vars
  /\ [][(variant = "branch" /\ pc = "tally" /\ ~everPublished) => pc' = "publish"]_vars
  /\ [][(variant = "branch" /\ pc = "publish" /\ ~everPublished
           /\ currentRun.Status = "completed")
          => (/\ published'.state = (CASE currentRun.Conclusion = "success" -> "success"
                                       [] currentRun.Conclusion = "cancelled" -> "canceled"
                                       [] OTHER -> "failed")
              /\ published'.commitSHA = currentRun.HeadSHA
              /\ pc' = "completion")]_vars
  /\ [][(pc = "completion" /\ currentRun.Status = "completed")
          => IF currentRun.Conclusion = "failure"
               THEN pc' = "analyze" /\ analyzeCalls' = analyzeCalls
               ELSE pc' = "return" /\ loopExit' = "Terminal"]_vars
  /\ [][pc = "analyze"
          => (analyzeCalls' = analyzeCalls + 1 /\ pc' = "return" /\ loopExit' = "Terminal")]_vars
  /\ [][pc = "return" => (pc' = "returned" /\ retErr' = "nil")]_vars
  /\ [][pc = "returned" => (pc' = "exited" /\ currentRun' = currentRun)]_vars
  /\ [][pc = "exited" => FALSE]_vars
  /\ []((pc \in {"located", "tally", "publish", "completion", "analyze", "return"})
          => everLocated /\ currentRun # NoRun)

C34_Witness ==
  /\ variant = "branch"
  /\ pc = "exited"
  /\ loopExit = "Terminal"
  /\ now = 0
  /\ elapsed = 0
  /\ currentRun.Status = "completed"
  /\ currentRun.Conclusion = "failure"
  /\ published.state = "failed"
  /\ lastPublished = <<currentRun.ID, "completed", "failure">>
  /\ analyzeCalls = 1
  /\ exitCode = 0

\* C35: when the jobs fetch of logDetailedStatus fails in a changed tick,
\* the tick goes on: the publisher is called with the mapped state of the
\* located run, the baseline becomes that run's triple, the completion
\* handling runs, and the failure never becomes the monitor's error
C35_TallyFailureDoesNotStopTick ==
  /\ [][(pc = "tally" /\ statusChanged /\ tallyErr' = "error")
          => (pc' = "publish" /\ currentRun' = currentRun /\ baseline' = baseline)]_vars
  /\ [][(pc = "publish" /\ tallyErr = "error")
          => (/\ published'.state = mapToGitLabState(currentRun.Status, currentRun.Conclusion)
              /\ published'.runID = currentRun.ID
              /\ everPublished'
              /\ baseline' = RunTriple
              /\ pc' = "completion")]_vars
  /\ [][(pc = "completion" /\ tallyErr = "error")
          => IF currentRun.Status = "completed"
               THEN \/ (pc' = "analyze" /\ currentRun.Conclusion = "failure")
                    \/ (pc' = "return" /\ loopExit' = "Terminal")
               ELSE \/ pc' = "sleep"
                    \/ (pc' = "return" /\ loopExit' = "TimedOut"
                          /\ variant = "branch" /\ elapsed > Ceiling)]_vars
  /\ [](tallyErr = "error" => retErr \in {"none", "nil"})
  /\ []((tallyErr = "error" /\ statusChanged
           /\ pc \in {"completion", "analyze", "return", "returned", "exited", "sleep"})
          => (published # NoPublish /\ baseline = RunTriple))

C35_Witness ==
  /\ variant = "branch"
  /\ tallyErr = "error"
  /\ pc = "exited"
  /\ loopExit = "Terminal"
  /\ publishOutcome = "ok_2xx"
  /\ published.state = "failed"
  /\ baseline = <<1, "completed", "failure">>
  /\ analyzeCalls = 1
  /\ exitCode = 0

\* an iteration of the search loop ends without a located run: the list
\* fetch failed, or the scan ran out of matching entries (none, or every
\* re-fetch failed)
SearchMiss ==
  /\ phase = "search"
  /\ \/ (pc = "tick" /\ runsErr' # "nil")
     \/ NotFoundStep

SearchTimeouts == {"timeout waiting for GitHub Actions", "timeout: no workflow found"}

\* C36: in the commit variant the search loop returns an error exactly at
\* the end of an iteration without a located run at which more than five
\* minutes have passed since the start; the process then exits with code 1,
\* the publisher was never called and the baseline is still the initial one
C36_SearchTimesOutIffUnlocatedPastFive ==
  /\ [](phase = "search" => variant = "commit")
  /\ [][SearchMiss
          => (pc' = "returned" <=> now' - monitoringStart > SearchCeiling)]_vars
  /\ [][SearchMiss
          => IF pc' = "returned" THEN retErr' \in SearchTimeouts
                                 ELSE pc' = "sleep" /\ retErr' = retErr]_vars
  /\ [][(phase = "search" /\ pc # "returned" /\ pc' = "returned") => SearchMiss]_vars
  /\ [][(retErr \notin SearchTimeouts /\ retErr' \in SearchTimeouts) => SearchMiss]_vars
  /\ []((phase = "search" \/ retErr \in SearchTimeouts)
          => (/\ ~everPublished
              /\ lastPublished = NoTriple
              /\ published = NoPublish
              /\ baseline = <<0, "", "">>))
  /\ []((retErr \in SearchTimeouts /\ pc = "exited") => exitCode = 1)

C36_Witness ==
  /\ variant = "commit"
  /\ phase = "search"
  /\ pc = "exited"
  /\ exitCode = 1
  /\ retErr = "timeout: no workflow found"
  /\ detailErrs = 1
  /\ now = SearchCeiling + 1
  /\ ~everPublished
  /\ baseline = <<0, "", "">>

\* the commit variant's second loop
CommitMonitoring == variant = "commit" /\ phase = "monitor"

\* C37: the commit variant's monitoring loop is left only by the break of a
\* tick that located a completed run; it never exits TimedOut and never
\* returns an error, and a tick with a failed list fetch, without a located
\* run or with a run that is not completed goes to the sleep however much
\* time has passed
C37_CommitLoopHasNoCeiling ==
  /\ [](variant = "commit" => loopExit # "TimedOut")
  /\ [][(CommitMonitoring /\ pc # "return" /\ pc' = "return")
          => (/\ pc \in {"completion", "analyze"}
              /\ currentRun.Status = "completed"
              /\ loopExit' = "Terminal")]_vars
  /\ [][(CommitMonitoring /\ pc # "returned" /\ pc' = "returned")
          => (pc = "return" /\ retErr' = "nil")]_vars
  /\ [][(CommitMonitoring /\ pc = "completion" /\ currentRun.Status # "completed")
          => pc' = "sleep"]_vars
  /\ [][(CommitMonitoring /\ ((pc = "tick" /\ runsErr' # "nil") \/ NotFoundStep))
          => pc' = "sleep"]_vars
  /\ [][(CommitMonitoring /\ pc = "sleep") => pc' = "tick"]_vars

\* a tick of the commit variant 46 minutes after the start saw the run still
\* running and unchanged, and sleeps for the next tick
C37_Witness ==
  /\ CommitMonitoring
  /\ pc = "sleep"
  /\ monitoringStart = 0
  /\ now = Ceiling + 1
  /\ everPublished
  /\ ~statusChanged
  /\ currentRun.Status = "in_progress"
  /\ baseline = RunTriple
  /\ loopExit = "none"

\* from some point on the run list is fetched and holds a run on the branch
ListFetchesSucceed ==
  <>[][pc = "tick" => (pc' = "scan" /\ NextMatch(variant, runs', 1) # 0)]_vars

\* from some point on no re-fetch of a run fails
DetailFetchesSucceed == <>[][detailErrs' = detailErrs \/ pc # "scan"]_vars

\* from some point on the re-fetched run is completed
RunStaysCompleted == <>[][LocateStep => currentRun'.Status = "completed"]_vars

\* C38: if from some point on the list and detail fetches succeed and the
\* run on the branch is completed, the branch variant's loop ends, in
\* Terminal or TimedOut, and the process exits; and once a tick has left the
\* loop in Terminal there is no further tick, fetch, publish or analysis
C38_BranchLoopTerminates ==
  /\ (ListFetchesSucceed /\ DetailFetchesSucceed /\ RunStaysCompleted)
       => <>(pc = "exited" /\ loopExit \in {"Terminal", "TimedOut"})
  /\ [][loopExit = "Terminal"
          => (/\ pc \in {"return", "returned"}
              /\ pc' \in {"returned", "exited"}
              /\ now' = now
              /\ currentRun' = currentRun
              /\ published' = published
              /\ lastPublished' = lastPublished
              /\ analyzeCalls' = analyzeCalls
              /\ loopExit' = loopExit)]_vars
  /\ [](loopExit = "Terminal" => currentRun.Status = "completed")

C38_Witness ==
  /\ variant = "branch"
  /\ pc = "exited"
  /\ loopExit = "Terminal"
  /\ currentRun.Status = "completed"
  /\ currentRun.Conclusion = "timed_out"
  /\ published.state = "failed"
  /\ analyzeCalls = 0
  /\ now = Ceiling
  /\ exitCode = 0

====
